---- MODULE Spec2Model ----
(***************************************************************************)
(* gate0: an embeddable authorization decision engine.                     *)
(*                                                                         *)
(* The module models                                                       *)
(*   - Value, Matcher, Target, Condition (src/src/value.rs, target.rs,     *)
(*     condition.rs) as operators computed the way the code computes them  *)
(*     (explicit work stacks, no recursion over the tree);                 *)
(*   - PolicyBuilder / Policy / Policy.evaluate, whose source file is not  *)
(*     part of src/, from sections 4.4 and 4.5 of the specification;       *)
(*   - two specifications:                                                 *)
(*       Spec      the builder, build() and evaluate() of a built policy,  *)
(*       SpecCond  one Condition::evaluate call, one work item per step.   *)
(***************************************************************************)
EXTENDS Integers, Sequences, FiniteSets, TLC

VARIABLES
    phase,      \* "building" | "built" | "failed": the PolicyBuilder / Policy lifecycle
    rules,      \* PolicyBuilder.rules, then Policy.rules (moved by build)
    config,     \* PolicyBuilder.config, then Policy.config
    buildErr,   \* the ConstructionError of a failed build, else NoError
    request,    \* the Request of the last evaluate call (an Option)
    outcome,    \* the Result<Decision, PolicyError> of the last evaluate call (an Option)
    called,     \* "none" | "evaluate" | "evaluate_with_stats": the entry point of that call
    stats,      \* the EvaluationStats evaluate_with_stats returned with its decision (an Option)
    alloc_count, \* the allocator calls counted since the Policy was built (tests/allocations.rs)
    cond,       \* SpecCond: the Condition being evaluated
    ctx,        \* SpecCond: the context slice it is evaluated against
    stack,      \* SpecCond: Condition::evaluate's work stack
    results,    \* SpecCond: Condition::evaluate's results stack
    cpc,        \* SpecCond: "run" inside the while loop, "done" after return
    cresult,    \* SpecCond: the returned Result<bool, PolicyError> (an Option)
    pops,       \* SpecCond: the work items popped so far (iterations of the while loop)
    visited,    \* SpecCond: the nodes the Eval arm has been entered with, in order
    call,       \* SpecCalls: the function called and its arguments
    ret,        \* SpecCalls: what the call returned (an Option)
    fs,         \* SpecStack: the FixedStack<T, N> {buf, len}
    cap,        \* SpecStack: its capacity N
    hist,       \* SpecStack: the calls made on it so far, each with what it returned
    alive,      \* SpecStack: FALSE once the stack has been destroyed
    dropped,    \* SpecStack: the elements the destructor dropped, in order
    ub,         \* SpecStack: TRUE once a slot that holds no element was read or dropped
    ev,         \* SpecConc: per evaluator, where its evaluate call stands and what it returned
    scratch,    \* SpecConc: per stack frame, the first_allow and the two FixedStacks of a call
    es,         \* SpecStats: the EvaluationStats value the calls are made on
    made,       \* SpecStats: the calls made on it so far, counted by kind, and the depths passed
    heap,       \* SpecDrop: the Condition nodes allocated so far, by address
    frames,     \* SpecDrop: the nested drop calls in progress, outermost first
    released,   \* SpecDrop: the addresses of the nodes released, in order
    tree        \* SpecDrop: the Condition being dropped

vars == <<phase, rules, config, buildErr, request, outcome, called, stats, alloc_count,
          cond, ctx, stack, results, cpc, cresult, pops, visited, call, ret,
          fs, cap, hist, alive, dropped, ub, ev, scratch,
          es, made,
          heap, frames, released, tree>>
evalVars == <<request, outcome, called, stats, alloc_count>>
policyVars == <<phase, rules, config, buildErr, request, outcome, called, stats, alloc_count>>
condVars == <<cond, ctx, stack, results, cpc, cresult, pops, visited>>
callVars == <<call, ret>>
\* What the actions of one specification leave alone: the variables of the others.
stackVars == <<fs, cap, hist, alive, dropped, ub>>
concVars == <<ev, scratch>>
statsVars == <<es, made>>
dropVars == <<heap, frames, released, tree>>
offPolicy == <<condVars, callVars, stackVars, concVars, statsVars, dropVars>>
offCond == <<policyVars, callVars, stackVars, concVars, statsVars, dropVars>>
offCalls == <<policyVars, condVars, stackVars, concVars, statsVars, dropVars>>
offStack == <<policyVars, condVars, callVars, concVars, statsVars, dropVars>>
offConc == <<policyVars, condVars, callVars, stackVars, statsVars, dropVars>>
offStats == <<condVars, callVars, stackVars, concVars, policyVars, dropVars>>
offDrop == <<condVars, callVars, stackVars, concVars, statsVars, policyVars>>

(***************************************************************************)
(* Rust's Option and Result, as records.                                   *)
(***************************************************************************)
None == [some |-> FALSE]
Some(x) == [some |-> TRUE, val |-> x]
Ok(x) == [ok |-> TRUE, val |-> x]
Err(e) == [ok |-> FALSE, err |-> e]

\* Vec / slice helpers: push is Append, pop takes the last element.
Top(s) == s[Len(s)]
Pop(s) == SubSeq(s, 1, Len(s) - 1)
Max(a, b) == IF a >= b THEN a ELSE b
Min(a, b) == IF a <= b THEN a ELSE b

(***************************************************************************)
(* Value: Bool | Int | String, with the derived PartialEq.                 *)
(***************************************************************************)
VBool(b) == [tag |-> "Bool", b |-> b]
VInt(i) == [tag |-> "Int", i |-> i]
VString(s) == [tag |-> "String", s |-> s]

\* Variant: Bool and Int compare by numeric value, so Bool(true) equals Int(1).
Value_eq_Coercing(v, w) ==
    LET num(x) == IF x.tag = "Int" THEN x.i ELSE IF x.b THEN 1 ELSE 0
    IN  IF v.tag = "String" \/ w.tag = "String"
        THEN v.tag = w.tag /\ v.s = w.s
        ELSE num(v) = num(w)

\* #[derive(PartialEq)]: equal iff same variant and equal payload.
Value_eq(v, w) ==
    IF v.tag # w.tag THEN FALSE
    ELSE IF v.tag = "Bool" THEN v.b = w.b
    ELSE IF v.tag = "Int" THEN v.i = w.i
    ELSE v.s = w.s

(***************************************************************************)
(* PolicyError variants used by the code under src/.                       *)
(***************************************************************************)
InternalError == [kind |-> "InternalError"]
ConditionTooDeep(max, actual) == [kind |-> "ConditionTooDeep", max |-> max, actual |-> actual]
StringTooLong(max, actual) == [kind |-> "StringTooLong", max |-> max, actual |-> actual]

(***************************************************************************)
(* Matcher and Target.                                                     *)
(***************************************************************************)
MAny == [m |-> "Any"]
MExact(s) == [m |-> "Exact", expected |-> s]
MOneOf(opts) == [m |-> "OneOf", options |-> opts]

\* options.iter().any(|opt| *opt == value): a linear scan from the front.
RECURSIVE AnyEq(_, _, _)
AnyEq(options, value, i) ==
    IF i > Len(options) THEN FALSE
    ELSE IF options[i] = value THEN TRUE
    ELSE AnyEq(options, value, i + 1)

\* Variant: OneOf looks at its first option only.
Matcher_matches_FirstOptionOnly(self, value) ==
    IF self.m = "Any" THEN TRUE
    ELSE IF self.m = "Exact" THEN value = self.expected
    ELSE Len(self.options) > 0 /\ self.options[1] = value

\* Variant: OneOf of the empty list matches every value.
Matcher_matches_EmptyListMatchesAll(self, value) ==
    IF self.m = "Any" THEN TRUE
    ELSE IF self.m = "Exact" THEN value = self.expected
    ELSE Len(self.options) = 0 \/ AnyEq(self.options, value, 1)

Matcher_matches(self, value) ==
    IF self.m = "Any" THEN TRUE
    ELSE IF self.m = "Exact" THEN value = self.expected
    ELSE AnyEq(self.options, value, 1)

Target_any == [principal |-> MAny, action |-> MAny, resource |-> MAny]

\* Variant: the resource matcher is not consulted.
Target_matches_IgnoresResource(self, principal, action, resource) ==
    /\ Matcher_matches(self.principal, principal)
    /\ Matcher_matches(self.action, action)

Target_matches(self, principal, action, resource) ==
    /\ Matcher_matches(self.principal, principal)
    /\ Matcher_matches(self.action, action)
    /\ Matcher_matches(self.resource, resource)

(***************************************************************************)
(* Condition: an owned tree.                                               *)
(***************************************************************************)
CTrue == [kind |-> "True"]
CFalse == [kind |-> "False"]
Equals(attr, value) == [kind |-> "Equals", attr |-> attr, value |-> value]
NotEquals(attr, value) == [kind |-> "NotEquals", attr |-> attr, value |-> value]
And(a, b) == [kind |-> "And", a |-> a, b |-> b]
Or(a, b) == [kind |-> "Or", a |-> a, b |-> b]
Not(inner) == [kind |-> "Not", inner |-> inner]

IsLeaf(c) == c.kind \in {"True", "False", "Equals", "NotEquals"}

\* Condition::depth: the Visit / Computed work-stack loop.
Visit(c) == [item |-> "Visit", cond |-> c]
Computed(n) == [item |-> "Computed", count |-> n]

\* results.pop().unwrap_or(0)
PopOr0(rs) == IF Len(rs) = 0 THEN 0 ELSE Top(rs)
PopRest(rs) == IF Len(rs) = 0 THEN rs ELSE Pop(rs)

\* Iterations of a work-stack loop are taken up to LoopChunk at a time.
LoopChunk == 2 * 32

\* One iteration of the while loop: pop an item and act on it.
DepthStep(st) ==
    LET item == Top(st.stack)
        rest == Pop(st.stack)
        rs == st.results
    IN  IF item.item = "Visit" THEN
            IF IsLeaf(item.cond) THEN [stack |-> rest, results |-> Append(rs, 1)]
            ELSE IF item.cond.kind = "Not" THEN
                [stack |-> Append(Append(rest, Computed(1)), Visit(item.cond.inner)),
                 results |-> rs]
            ELSE
                [stack |-> Append(Append(Append(rest, Computed(2)),
                                         Visit(item.cond.b)), Visit(item.cond.a)),
                 results |-> rs]
        ELSE IF item.count = 1 THEN
            LET d == PopOr0(rs)
            IN  [stack |-> rest, results |-> Append(PopRest(rs), d + 1)]
        ELSE
            LET d2 == PopOr0(rs)
                r1 == PopRest(rs)
                d1 == PopOr0(r1)
            IN  [stack |-> rest, results |-> Append(PopRest(r1), Max(d1, d2) + 1)]

\* Up to n iterations, stopping when the work stack is empty.
RECURSIVE DepthSteps(_, _)
DepthSteps(st, n) ==
    IF n = 0 \/ Len(st.stack) = 0 THEN st
    ELSE IF n = 1 THEN DepthStep(st)
    ELSE DepthSteps(DepthSteps(st, n \div 2), n - (n \div 2))

RECURSIVE DepthLoop(_, _)
DepthLoop(stk, rs) ==
    IF Len(stk) = 0 THEN PopOr0(rs)
    ELSE LET st == DepthSteps([stack |-> stk, results |-> rs], LoopChunk)
         IN  DepthLoop(st.stack, st.results)

\* (saturating_add cannot saturate for a tree that fits in memory.)
Condition_depth(self) == DepthLoop(<<Visit(self)>>, <<>>)

\* Variant: a string of exactly max_len bytes is rejected too.
validate_str_Inclusive(s, max_len) ==
    IF Len(s) >= max_len THEN Err(StringTooLong(max_len, Len(s))) ELSE Ok(TRUE)

\* str::len is the byte length; the strings of the model are ASCII, one byte per character.
validate_str(s, max_len) ==
    IF Len(s) > max_len THEN Err(StringTooLong(max_len, Len(s))) ELSE Ok(TRUE)

\* The string walk of Condition::validate, one iteration: `?` returns the first
\* error met.
ValidateStep(st, max_string_len) ==
    LET c == Top(st.stack)
        rest == Pop(st.stack)
    IN  IF c.kind \in {"True", "False"} THEN [st EXCEPT !.stack = rest]
        ELSE IF c.kind \in {"Equals", "NotEquals"} THEN
            IF ~validate_str(c.attr, max_string_len).ok
            THEN [stack |-> rest, result |-> validate_str(c.attr, max_string_len)]
            ELSE IF c.value.tag = "String" /\ ~validate_str(c.value.s, max_string_len).ok
            THEN [stack |-> rest, result |-> validate_str(c.value.s, max_string_len)]
            ELSE [st EXCEPT !.stack = rest]
        ELSE IF c.kind = "Not" THEN
            [st EXCEPT !.stack = Append(rest, c.inner)]
        ELSE [st EXCEPT !.stack = Append(Append(rest, c.b), c.a)]

\* Up to n iterations, stopping at an error or when the work stack is empty.
RECURSIVE ValidateSteps(_, _, _)
ValidateSteps(st, max_string_len, n) ==
    IF n = 0 \/ ~st.result.ok \/ Len(st.stack) = 0 THEN st
    ELSE IF n = 1 THEN ValidateStep(st, max_string_len)
    ELSE ValidateSteps(ValidateSteps(st, max_string_len, n \div 2), max_string_len,
                       n - (n \div 2))

RECURSIVE ValidateRun(_, _)
ValidateRun(st, max_string_len) ==
    IF ~st.result.ok \/ Len(st.stack) = 0 THEN st.result
    ELSE ValidateRun(ValidateSteps(st, max_string_len, LoopChunk), max_string_len)

ValidateLoop(stk, max_string_len) ==
    ValidateRun([stack |-> stk, result |-> Ok(TRUE)], max_string_len)

\* Variant: a depth equal to the bound is rejected too.
Condition_validate_DepthInclusive(self, max_depth, max_string_len) ==
    LET actual_depth == Condition_depth(self)
    IN  IF actual_depth >= max_depth
        THEN Err(ConditionTooDeep(max_depth, actual_depth))
        ELSE ValidateLoop(<<self>>, max_string_len)

Condition_validate(self, max_depth, max_string_len) ==
    LET actual_depth == Condition_depth(self)
    IN  IF actual_depth > max_depth
        THEN Err(ConditionTooDeep(max_depth, actual_depth))
        ELSE ValidateLoop(<<self>>, max_string_len)

\* context.iter().find(|(k, _)| *k == name).map(|(_, v)| v): the first entry named `name`.
RECURSIVE FindAttr(_, _, _)
FindAttr(context, name, i) ==
    IF i > Len(context) THEN None
    ELSE IF context[i][1] = name THEN Some(context[i][2])
    ELSE FindAttr(context, name, i + 1)

lookup_attr(context, name) == FindAttr(context, name, 1)

\* Condition::evaluate's work items.
Eval(c) == [item |-> "Eval", cond |-> c]
ApplyNot == [item |-> "ApplyNot"]
ApplyAnd == [item |-> "ApplyAnd"]
ApplyOr == [item |-> "ApplyOr"]

\* Variant: a missing attribute makes Equals true.
EqualsResult_MissingIsTrue(context, attr, value) ==
    LET found == lookup_attr(context, attr)
    IN  IF found.some THEN Value_eq(found.val, value) ELSE TRUE

\* lookup_attr(context, attr).map(|v| v == value).unwrap_or(false)
EqualsResult(context, attr, value) ==
    LET found == lookup_attr(context, attr)
    IN  IF found.some THEN Value_eq(found.val, value) ELSE FALSE

\* Variant: a missing attribute makes NotEquals false, as it makes Equals false.
NotEqualsResult_MissingIsFalse(context, attr, value) ==
    LET found == lookup_attr(context, attr)
    IN  IF found.some THEN ~Value_eq(found.val, value) ELSE FALSE

\* lookup_attr(context, attr).map(|v| v != value).unwrap_or(true)
NotEqualsResult(context, attr, value) ==
    LET found == lookup_attr(context, attr)
    IN  IF found.some THEN ~Value_eq(found.val, value) ELSE TRUE

\* Variant: Not pushes the evaluation of its operand twice.
PushNot_EvalTwice(rest, c) ==
    Append(Append(Append(rest, ApplyNot), Eval(c.inner)), Eval(c.inner))

\* Variant: Not pushes its operand without the ApplyNot marker.
PushNot_NoApply(rest, c) == Append(rest, Eval(c.inner))

\* Condition::Not(inner): stack.push(ApplyNot); stack.push(Eval(inner)).
PushNot(rest, c) == Append(Append(rest, ApplyNot), Eval(c.inner))

\* Variant: And / Or push the right operand on top, so that it is evaluated first.
PushBinary_RightFirst(rest, apply, c) == Append(Append(Append(rest, apply), Eval(c.a)), Eval(c.b))

\* Variant: And / Or push the left operand only.
PushBinary_LeftOnly(rest, apply, c) == Append(Append(rest, apply), Eval(c.a))

\* Condition::And(a, b) / Or(a, b): push the marker, then Eval(b), then Eval(a).
PushBinary(rest, apply, c) == Append(Append(Append(rest, apply), Eval(c.b)), Eval(c.a))

\* One iteration of `while let Some(item) = stack.pop()` on a non-empty stack.
\* st = [stack, results, err]; err is Some(InternalError) once a `?` has returned.
EvalStep(st, context) ==
    LET item == Top(st.stack)
        rest == Pop(st.stack)
        rs == st.results
        fail == [stack |-> rest, results |-> <<>>, err |-> Some(InternalError)]
    IN  IF item.item = "Eval" THEN
            LET c == item.cond
            IN  IF c.kind = "True" THEN [st EXCEPT !.stack = rest, !.results = Append(rs, TRUE)]
                ELSE IF c.kind = "False" THEN [st EXCEPT !.stack = rest, !.results = Append(rs, FALSE)]
                ELSE IF c.kind = "Equals" THEN
                    [st EXCEPT !.stack = rest,
                               !.results = Append(rs, EqualsResult(context, c.attr, c.value))]
                ELSE IF c.kind = "NotEquals" THEN
                    [st EXCEPT !.stack = rest,
                               !.results = Append(rs, NotEqualsResult(context, c.attr, c.value))]
                ELSE IF c.kind = "Not" THEN
                    [st EXCEPT !.stack = PushNot(rest, c)]
                ELSE IF c.kind = "And" THEN
                    [st EXCEPT !.stack = PushBinary(rest, ApplyAnd, c)]
                ELSE
                    [st EXCEPT !.stack = PushBinary(rest, ApplyOr, c)]
        ELSE IF item.item = "ApplyNot" THEN
            IF Len(rs) < 1 THEN fail
            ELSE [st EXCEPT !.stack = rest, !.results = Append(Pop(rs), ~Top(rs))]
        ELSE IF item.item = "ApplyAnd" THEN
            IF Len(rs) < 2 THEN fail
            ELSE LET b == Top(rs)
                     a == Top(Pop(rs))
                 IN  [st EXCEPT !.stack = rest, !.results = Append(Pop(Pop(rs)), a /\ b)]
        ELSE
            IF Len(rs) < 2 THEN fail
            ELSE LET b == Top(rs)
                     a == Top(Pop(rs))
                 IN  [st EXCEPT !.stack = rest, !.results = Append(Pop(Pop(rs)), a \/ b)]

\* results.pop().ok_or(PolicyError::InternalError) after the loop.
EvalReturn(st) ==
    IF st.err.some THEN Err(st.err.val)
    ELSE IF Len(st.results) = 0 THEN Err(InternalError)
    ELSE Ok(Top(st.results))

\* Up to n iterations, stopping at an error or when the work stack is empty.
RECURSIVE EvalSteps(_, _, _)
EvalSteps(st, context, n) ==
    IF n = 0 \/ st.err.some \/ Len(st.stack) = 0 THEN st
    ELSE IF n = 1 THEN EvalStep(st, context)
    ELSE EvalSteps(EvalSteps(st, context, n \div 2), context, n - (n \div 2))

RECURSIVE EvalLoop(_, _)
EvalLoop(st, context) ==
    IF st.err.some \/ Len(st.stack) = 0 THEN EvalReturn(st)
    ELSE EvalLoop(EvalSteps(st, context, LoopChunk), context)

EvalStart(self) == [stack |-> <<Eval(self)>>, results |-> <<>>, err |-> None]

Condition_evaluate(self, context) == EvalLoop(EvalStart(self), context)

(***************************************************************************)
(* Effect, ReasonCode, Decision, Request (src/src/types.rs).               *)
(***************************************************************************)
Allow == "Allow"
Deny == "Deny"

NO_MATCHING_RULE == 0

Decision_new(effect, reason) == [effect |-> effect, reason |-> reason]
Decision_allow(reason) == Decision_new(Allow, reason)

\* Variant: a Deny decision always carries NO_MATCHING_RULE.
Decision_deny_ReasonLost(reason) == Decision_new(Deny, NO_MATCHING_RULE)

Decision_deny(reason) == Decision_new(Deny, reason)

Request_with_context(principal, action, resource, context) ==
    [principal |-> principal, action |-> action, resource |-> resource, context |-> context]

(***************************************************************************)
(* Rule, PolicyConfig, PolicyBuilder.build and Policy.evaluate.  Their     *)
(* source file is not under src/: they follow sections 3, 4.3, 4.4, 4.5,   *)
(* 6 and 7 of the specification.                                           *)
(***************************************************************************)
Rule_new(effect, target, condition, reason) ==
    [effect |-> effect, target |-> target, condition |-> condition, reason |-> reason]

ABSOLUTE_MAX_RULES == 4096
ABSOLUTE_MAX_CONDITION_DEPTH == 32
ABSOLUTE_MAX_CONTEXT_ATTRS == 256
ABSOLUTE_MAX_MATCHER_OPTIONS == 256
ABSOLUTE_MAX_STRING_LEN == 4096

PolicyConfig_default ==
    [max_rules |-> 256, max_condition_depth |-> 8, max_context_attrs |-> 32,
     max_matcher_options |-> 64, max_string_len |-> 256]

TooManyRules(max, actual) == [kind |-> "TooManyRules", max |-> max, actual |-> actual]
MatcherListTooLong(max, actual) == [kind |-> "MatcherListTooLong", max |-> max, actual |-> actual]
ConfigExceedsCeiling(field, max, actual) ==
    [kind |-> "ConfigExceedsCeiling", field |-> field, max |-> max, actual |-> actual]
TooManyContextAttrs(max, actual) == [kind |-> "TooManyContextAttrs", max |-> max, actual |-> actual]

\* The three matchers of a target, in field order.
TargetMatchers(t) == <<t.principal, t.action, t.resource>>

\* "Every matcher's OneOf list <= min(max_matcher_options, ABSOLUTE_MAX_MATCHER_OPTIONS)".
MatcherListCheck(m, cfg) ==
    LET max == Min(cfg.max_matcher_options, ABSOLUTE_MAX_MATCHER_OPTIONS)
    IN  IF m.m = "OneOf" /\ Len(m.options) > max
        THEN Err(MatcherListTooLong(max, Len(m.options)))
        ELSE Ok(TRUE)

\* "Every string embedded in any Matcher ... <= max_string_len".
RECURSIVE StringsCheck(_, _, _)
StringsCheck(strs, i, max_len) ==
    IF i > Len(strs) THEN Ok(TRUE)
    ELSE IF ~validate_str(strs[i], max_len).ok THEN validate_str(strs[i], max_len)
    ELSE StringsCheck(strs, i + 1, max_len)

MatcherStringsCheck(m, cfg) ==
    IF m.m = "Exact" THEN validate_str(m.expected, cfg.max_string_len)
    ELSE IF m.m = "OneOf" THEN StringsCheck(m.options, 1, cfg.max_string_len)
    ELSE Ok(TRUE)

\* The first error `check` reports over items[i..], else Ok.
RECURSIVE FirstErr(_, _)
FirstErr(checked, i) ==
    IF i > Len(checked) THEN Ok(TRUE)
    ELSE IF ~checked[i].ok THEN checked[i]
    ELSE FirstErr(checked, i + 1)

AllMatchers(rs) ==
    [k \in 1..(3 * Len(rs)) |-> TargetMatchers(rs[((k - 1) \div 3) + 1].target)[((k - 1) % 3) + 1]]

\* Variant: values above a ceiling are clamped silently.
ConfigCeilingCheck_Clamping(cfg) == Ok(TRUE)

ConfigCeilingCheck(cfg) ==
    IF cfg.max_rules > ABSOLUTE_MAX_RULES
    THEN Err(ConfigExceedsCeiling("max_rules", ABSOLUTE_MAX_RULES, cfg.max_rules))
    ELSE IF cfg.max_condition_depth > ABSOLUTE_MAX_CONDITION_DEPTH
    THEN Err(ConfigExceedsCeiling("max_condition_depth", ABSOLUTE_MAX_CONDITION_DEPTH,
                                  cfg.max_condition_depth))
    ELSE IF cfg.max_context_attrs > ABSOLUTE_MAX_CONTEXT_ATTRS
    THEN Err(ConfigExceedsCeiling("max_context_attrs", ABSOLUTE_MAX_CONTEXT_ATTRS,
                                  cfg.max_context_attrs))
    ELSE IF cfg.max_matcher_options > ABSOLUTE_MAX_MATCHER_OPTIONS
    THEN Err(ConfigExceedsCeiling("max_matcher_options", ABSOLUTE_MAX_MATCHER_OPTIONS,
                                  cfg.max_matcher_options))
    ELSE IF cfg.max_string_len > ABSOLUTE_MAX_STRING_LEN
    THEN Err(ConfigExceedsCeiling("max_string_len", ABSOLUTE_MAX_STRING_LEN, cfg.max_string_len))
    ELSE Ok(TRUE)

\* Variant: a builder holding exactly the limit is rejected too.
RuleCountCheck_Inclusive(rs, cfg) ==
    LET max == Min(cfg.max_rules, ABSOLUTE_MAX_RULES)
    IN  IF Len(rs) >= max THEN Err(TooManyRules(max, Len(rs))) ELSE Ok(TRUE)

\* Section 4.4, the build-time checks in the order the section lists them;
\* the first failing check aborts build with its error.
RuleCountCheck(rs, cfg) ==
    LET max == Min(cfg.max_rules, ABSOLUTE_MAX_RULES)
    IN  IF Len(rs) > max THEN Err(TooManyRules(max, Len(rs))) ELSE Ok(TRUE)

ConditionCheck(rule, cfg) ==
    IF rule.condition.some
    THEN Condition_validate(rule.condition.val, cfg.max_condition_depth, cfg.max_string_len)
    ELSE Ok(TRUE)

PolicyBuilder_build(rs, cfg) ==
    LET count == RuleCountCheck(rs, cfg)
        ms == AllMatchers(rs)
        lists == FirstErr([k \in 1..Len(ms) |-> MatcherListCheck(ms[k], cfg)], 1)
        strings == FirstErr([k \in 1..Len(ms) |-> MatcherStringsCheck(ms[k], cfg)], 1)
        conds == FirstErr([k \in 1..Len(rs) |-> ConditionCheck(rs[k], cfg)], 1)
        ceiling == ConfigCeilingCheck(cfg)
    IN  IF ~count.ok THEN count
        ELSE IF ~lists.ok THEN lists
        ELSE IF ~strings.ok THEN strings
        ELSE IF ~conds.ok THEN conds
        ELSE IF ~ceiling.ok THEN ceiling
        ELSE Ok([rules |-> rs, config |-> cfg])

(***************************************************************************)
(* FixedStack<T, N> (src/src/fixed_stack.rs): N slots of MaybeUninit<T>    *)
(* and a length. A slot is {init, val}: init says whether it holds an      *)
(* element; val is what its bytes hold (stale after the element was moved  *)
(* out). Rust's slot i is buf[i + 1].                                      *)
(***************************************************************************)
EvalStackOverflow(max) == [kind |-> "EvalStackOverflow", max |-> max]

Uninit == [init |-> FALSE, val |-> 0]

FixedStack_new(N) == [buf |-> [i \in 1..N |-> Uninit], len |-> 0]

\* Variant: the bound check reads `len > N`, so a push on a full stack reaches
\* buf[N] and panics on the index.
FixedStack_push_FullAccepted(self, value, N) ==
    IF self.len > N
    THEN [stack |-> self, result |-> Err(EvalStackOverflow(N))]
    ELSE IF self.len = N
    THEN [stack |-> self, result |-> Err([kind |-> "IndexOutOfBounds"])]
    ELSE [stack |-> [buf |-> [self.buf EXCEPT ![self.len + 1] = [init |-> TRUE, val |-> value]],
                     len |-> self.len + 1],
          result |-> Ok(TRUE)]

\* push: Err(EvalStackOverflow{max: N}) when len >= N (the value is dropped by
\* the early return), else buf[len].write(value); len += 1.
FixedStack_push(self, value, N) ==
    IF self.len >= N
    THEN [stack |-> self, result |-> Err(EvalStackOverflow(N))]
    ELSE [stack |-> [buf |-> [self.buf EXCEPT ![self.len + 1] = [init |-> TRUE, val |-> value]],
                     len |-> self.len + 1],
          result |-> Ok(TRUE)]

\* pop: None when len == 0, else len -= 1; Some(buf[len].assume_init_read()).
\* The read moves the element out: the slot keeps its bytes and holds no element.
\* `ub` reports a read of a slot that holds no element.
FixedStack_pop(self) ==
    IF self.len = 0
    THEN [stack |-> self, result |-> None, ub |-> FALSE]
    ELSE LET len == self.len - 1
             slot == self.buf[len + 1]
         IN  [stack |-> [buf |-> [self.buf EXCEPT ![len + 1] = [init |-> FALSE, val |-> slot.val]],
                         len |-> len],
              result |-> Some(slot.val),
              ub |-> ~slot.init]

FixedStack_len(self) == self.len
FixedStack_is_empty(self) == self.len = 0

\* The slots lo..hi dropped in order: buf[i].assume_init_drop().
RECURSIVE DropSlots(_, _, _)
DropSlots(self, lo, hi) ==
    IF lo > hi THEN [dropped |-> <<>>, ub |-> FALSE]
    ELSE LET rest == DropSlots(self, lo + 1, hi)
         IN  [dropped |-> <<self.buf[lo].val>> \o rest.dropped,
              ub |-> ~self.buf[lo].init \/ rest.ub]

\* Variant: the destructor drops every slot of the buffer.
FixedStack_drop_WholeBuffer(self) == DropSlots(self, 1, Len(self.buf))

\* Drop for FixedStack: for i in 0..self.len { buf[i].assume_init_drop() }.
FixedStack_drop(self) == DropSlots(self, 1, self.len)

(***************************************************************************)
(* EvaluationStats (src/src/stats.rs) and Policy.evaluate_with_stats       *)
(* (section 4.5, "Stats variant").                                         *)
(***************************************************************************)
U16_MAX == 65535

EvaluationStats_new == [rules_checked |-> 0, max_depth_reached |-> 0, condition_evals |-> 0]

\* #[derive(Default)]: every field is its type's default, 0.
EvaluationStats_default == [rules_checked |-> 0, max_depth_reached |-> 0, condition_evals |-> 0]

\* Variant: the rule counter is incremented with wrapping arithmetic.
inc_rules_Wrapping(s) == [s EXCEPT !.rules_checked = (s.rules_checked + 1) % (U16_MAX + 1)]

\* u16::saturating_add(1)
inc_rules(s) == [s EXCEPT !.rules_checked = Min(s.rules_checked + 1, U16_MAX)]

update_depth(s, depth) ==
    IF depth > s.max_depth_reached THEN [s EXCEPT !.max_depth_reached = depth] ELSE s

inc_condition_evals(s) == [s EXCEPT !.condition_evals = Min(s.condition_evals + 1, U16_MAX)]

(***************************************************************************)
(* The condition evaluator of Policy.evaluate (section 4.5, "No            *)
(* allocation"; section 4.6): the loop of Condition::evaluate run on two   *)
(* FixedStacks of EVAL_STACK_CAPACITY slots, one of work items and one of  *)
(* booleans. `allocs` counts the allocator calls the evaluation makes.     *)
(***************************************************************************)
\* Variant: a capacity of one slot per level of depth.
EVAL_STACK_CAPACITY_OnePerLevel == ABSOLUTE_MAX_CONDITION_DEPTH

\* "Capacity is chosen so that the worst-case work-stack size for a tree of depth
\* ABSOLUTE_MAX_CONDITION_DEPTH fits without overflow (2 * depth + a small constant)".
EVAL_STACK_CAPACITY == 2 * ABSOLUTE_MAX_CONDITION_DEPTH + 2

\* FixedStack::<_, EVAL_STACK_CAPACITY>::new()
EmptyEvalStack == FixedStack_new(EVAL_STACK_CAPACITY)

\* Variant: the two stacks are heap vectors, Vec::with_capacity(32) and
\* Vec::with_capacity(16), one allocator call each.
EvalStacks_new_OnHeap(s) ==
    [work |-> EmptyEvalStack, values |-> EmptyEvalStack, err |-> None, stats |-> s, allocs |-> 2]

\* Both stacks are FixedStack::new(): arrays in the stack frame, no allocator call.
\* `stats` is the EvaluationStats the evaluation updates.
EvalStacks_new(s) ==
    [work |-> EmptyEvalStack, values |-> EmptyEvalStack, err |-> None, stats |-> s, allocs |-> 0]

\* items[i..] pushed one by one with `?`: the first refused push returns its error.
RECURSIVE PushAll(_, _, _)
PushAll(self, items, i) ==
    IF i > Len(items) THEN [stack |-> self, result |-> Ok(TRUE)]
    ELSE LET pushed == FixedStack_push(self, items[i], EVAL_STACK_CAPACITY)
         IN  IF ~pushed.result.ok THEN pushed ELSE PushAll(pushed.stack, items, i + 1)

\* The error of a refused push, if any.
PushErr(pushed) == IF pushed.result.ok THEN None ELSE Some(pushed.result.err)

\* The value of a leaf, as Condition::evaluate computes it.
LeafResult(c, context) ==
    IF c.kind = "True" THEN TRUE
    ELSE IF c.kind = "False" THEN FALSE
    ELSE IF c.kind = "Equals" THEN EqualsResult(context, c.attr, c.value)
    ELSE NotEqualsResult(context, c.attr, c.value)

\* The work items a Not / And / Or node pushes, in push order.
NodeItems(c) ==
    IF c.kind = "Not" THEN PushNot(<<>>, c)
    ELSE IF c.kind = "And" THEN PushBinary(<<>>, ApplyAnd, c)
    ELSE PushBinary(<<>>, ApplyOr, c)

\* What one iteration does to the stacks: pop a work item and act on it.
EvalFixedStep(st, context) ==
    LET popped == FixedStack_pop(st.work)
        item == popped.result.val
        work == popped.stack
    IN  IF item.item = "Eval" THEN
            IF item.cond.kind \in {"True", "False", "Equals", "NotEquals"}
            THEN LET pushed == FixedStack_push(st.values, LeafResult(item.cond, context),
                                               EVAL_STACK_CAPACITY)
                 IN  [st EXCEPT !.work = work, !.values = pushed.stack, !.err = PushErr(pushed)]
            ELSE LET pushed == PushAll(work, NodeItems(item.cond), 1)
                 IN  [st EXCEPT !.work = pushed.stack, !.err = PushErr(pushed)]
        ELSE IF item.item = "ApplyNot" THEN
            LET v == FixedStack_pop(st.values)
            IN  IF ~v.result.some THEN [st EXCEPT !.work = work, !.err = Some(InternalError)]
                ELSE LET pushed == FixedStack_push(v.stack, ~v.result.val, EVAL_STACK_CAPACITY)
                     IN  [st EXCEPT !.work = work, !.values = pushed.stack, !.err = PushErr(pushed)]
        ELSE
            LET b == FixedStack_pop(st.values)
                a == FixedStack_pop(b.stack)
            IN  IF ~b.result.some \/ ~a.result.some
                THEN [st EXCEPT !.work = work, !.err = Some(InternalError)]
                ELSE LET r == IF item.item = "ApplyAnd"
                              THEN a.result.val /\ b.result.val
                              ELSE a.result.val \/ b.result.val
                         pushed == FixedStack_push(a.stack, r, EVAL_STACK_CAPACITY)
                     IN  [st EXCEPT !.work = work, !.values = pushed.stack, !.err = PushErr(pushed)]

\* One iteration with its counters: the work-stack depth is observed at the pop and
\* every condition node visited is counted (section 4.5, "Stats variant").
EvalFixedIteration(st, context) ==
    LET seen == update_depth(st.stats, FixedStack_len(st.work))
        top == st.work.buf[st.work.len].val
        counted == IF top.item = "Eval" THEN inc_condition_evals(seen) ELSE seen
    IN  [EvalFixedStep(st, context) EXCEPT !.stats = counted]

\* The first work item pushed on fresh stacks.
EvalFixedStart(condition, s) ==
    LET pushed == FixedStack_push(EvalStacks_new(s).work, Eval(condition), EVAL_STACK_CAPACITY)
    IN  [EvalStacks_new(s) EXCEPT !.work = pushed.stack, !.err = PushErr(pushed)]

\* After the loop: the value left on the value stack, or InternalError.
EvalFixedReturn(st) ==
    IF st.err.some THEN Err(st.err.val)
    ELSE LET v == FixedStack_pop(st.values)
         IN  IF v.result.some THEN Ok(v.result.val) ELSE Err(InternalError)

\* Up to n iterations, stopping at an error or when the work stack is empty.
RECURSIVE EvalFixedSteps(_, _, _)
EvalFixedSteps(st, context, n) ==
    IF n = 0 \/ st.err.some \/ FixedStack_is_empty(st.work) THEN st
    ELSE IF n = 1 THEN EvalFixedIteration(st, context)
    ELSE EvalFixedSteps(EvalFixedSteps(st, context, n \div 2), context, n - (n \div 2))

RECURSIVE EvalFixedLoop(_, _)
EvalFixedLoop(st, context) ==
    IF st.err.some \/ FixedStack_is_empty(st.work)
    THEN [result |-> EvalFixedReturn(st), stats |-> st.stats, allocs |-> st.allocs]
    ELSE EvalFixedLoop(EvalFixedSteps(st, context, LoopChunk), context)

eval_condition(condition, context, s) == EvalFixedLoop(EvalFixedStart(condition, s), context)

\* Section 4.5 step 3: the single pass over the rules, from rule i on.
\* first_allow is an Option<ReasonCode>.
\* Variant: the loop remembers the last Allow rule that matches and holds.
RECURSIVE EvaluateLoop_LastAllow(_, _, _, _)
EvaluateLoop_LastAllow(rs, req, i, first_allow) ==
    IF i > Len(rs) THEN
        IF first_allow.some THEN Ok(Decision_allow(first_allow.val))
        ELSE Ok(Decision_deny(NO_MATCHING_RULE))
    ELSE LET rule == rs[i]
         IN  IF ~Target_matches(rule.target, req.principal, req.action, req.resource)
             THEN EvaluateLoop_LastAllow(rs, req, i + 1, first_allow)
             ELSE LET held == IF rule.condition.some
                              THEN eval_condition(rule.condition.val, req.context,
                                                  EvaluationStats_new).result
                              ELSE Ok(TRUE)
                  IN  IF ~held.ok THEN held
                      ELSE IF ~held.val THEN EvaluateLoop_LastAllow(rs, req, i + 1, first_allow)
                      ELSE IF rule.effect = Deny THEN Ok(Decision_deny(rule.reason))
                      ELSE EvaluateLoop_LastAllow(rs, req, i + 1, Some(rule.reason))

RECURSIVE EvaluateLoop(_, _, _, _)
EvaluateLoop(rs, req, i, first_allow) ==
    IF i > Len(rs) THEN
        IF first_allow.some THEN Ok(Decision_allow(first_allow.val))
        ELSE Ok(Decision_deny(NO_MATCHING_RULE))
    ELSE LET rule == rs[i]
         IN  IF ~Target_matches(rule.target, req.principal, req.action, req.resource)
             THEN EvaluateLoop(rs, req, i + 1, first_allow)
             ELSE LET held == IF rule.condition.some
                              THEN eval_condition(rule.condition.val, req.context,
                                                  EvaluationStats_new).result
                              ELSE Ok(TRUE)
                  IN  IF ~held.ok THEN held
                      ELSE IF ~held.val THEN EvaluateLoop(rs, req, i + 1, first_allow)
                      ELSE IF rule.effect = Deny THEN Ok(Decision_deny(rule.reason))
                      ELSE IF first_allow.some THEN EvaluateLoop(rs, req, i + 1, first_allow)
                      ELSE EvaluateLoop(rs, req, i + 1, Some(rule.reason))

\* Variant: the single pass without the request validation.
Policy_evaluate_SizeUnchecked(policy, req) == EvaluateLoop(policy.rules, req, 1, None)

\* Section 4.5: validate the request, then the single pass.
Policy_evaluate(policy, req) ==
    IF Len(req.context) > policy.config.max_context_attrs
    THEN Err(TooManyContextAttrs(policy.config.max_context_attrs, Len(req.context)))
    ELSE EvaluateLoop(policy.rules, req, 1, None)

\* Section 4.5, stats variant of the single pass: rules_checked counts target
\* matches. `allocs` adds up the allocator calls of the condition evaluations.
\* Variant: rules_checked is incremented for every rule the loop reaches.
RECURSIVE EvaluateStatsLoop_CountsEveryRule(_, _, _, _, _, _)
EvaluateStatsLoop_CountsEveryRule(rs, req, i, first_allow, s, allocs) ==
    IF i > Len(rs) THEN
        IF first_allow.some
        THEN [result |-> Ok([decision |-> Decision_allow(first_allow.val), stats |-> s]),
              allocs |-> allocs]
        ELSE [result |-> Ok([decision |-> Decision_deny(NO_MATCHING_RULE), stats |-> s]),
              allocs |-> allocs]
    ELSE LET rule == rs[i]
             checked == inc_rules(s)
         IN  IF ~Target_matches(rule.target, req.principal, req.action, req.resource)
             THEN EvaluateStatsLoop_CountsEveryRule(rs, req, i + 1, first_allow, checked, allocs)
             ELSE LET run == IF rule.condition.some
                             THEN eval_condition(rule.condition.val, req.context, checked)
                             ELSE [result |-> Ok(TRUE), stats |-> checked, allocs |-> 0]
                      n == allocs + run.allocs
                  IN  IF ~run.result.ok THEN [result |-> run.result, allocs |-> n]
                      ELSE IF ~run.result.val
                      THEN EvaluateStatsLoop_CountsEveryRule(rs, req, i + 1, first_allow,
                                                             run.stats, n)
                      ELSE IF rule.effect = Deny
                      THEN [result |-> Ok([decision |-> Decision_deny(rule.reason),
                                           stats |-> run.stats]),
                            allocs |-> n]
                      ELSE IF first_allow.some
                      THEN EvaluateStatsLoop_CountsEveryRule(rs, req, i + 1, first_allow,
                                                             run.stats, n)
                      ELSE EvaluateStatsLoop_CountsEveryRule(rs, req, i + 1, Some(rule.reason),
                                                             run.stats, n)

RECURSIVE EvaluateStatsLoop(_, _, _, _, _, _)
EvaluateStatsLoop(rs, req, i, first_allow, s, allocs) ==
    IF i > Len(rs) THEN
        IF first_allow.some
        THEN [result |-> Ok([decision |-> Decision_allow(first_allow.val), stats |-> s]),
              allocs |-> allocs]
        ELSE [result |-> Ok([decision |-> Decision_deny(NO_MATCHING_RULE), stats |-> s]),
              allocs |-> allocs]
    ELSE LET rule == rs[i]
         IN  IF ~Target_matches(rule.target, req.principal, req.action, req.resource)
             THEN EvaluateStatsLoop(rs, req, i + 1, first_allow, s, allocs)
             ELSE LET checked == inc_rules(s)
                      run == IF rule.condition.some
                             THEN eval_condition(rule.condition.val, req.context, checked)
                             ELSE [result |-> Ok(TRUE), stats |-> checked, allocs |-> 0]
                      n == allocs + run.allocs
                  IN  IF ~run.result.ok THEN [result |-> run.result, allocs |-> n]
                      ELSE IF ~run.result.val
                      THEN EvaluateStatsLoop(rs, req, i + 1, first_allow, run.stats, n)
                      ELSE IF rule.effect = Deny
                      THEN [result |-> Ok([decision |-> Decision_deny(rule.reason),
                                           stats |-> run.stats]),
                            allocs |-> n]
                      ELSE IF first_allow.some
                      THEN EvaluateStatsLoop(rs, req, i + 1, first_allow, run.stats, n)
                      ELSE EvaluateStatsLoop(rs, req, i + 1, Some(rule.reason), run.stats, n)

\* The run of one evaluation: its result and the allocator calls it made.
EvaluationRun(policy, req) ==
    IF Len(req.context) > policy.config.max_context_attrs
    THEN [result |-> Err(TooManyContextAttrs(policy.config.max_context_attrs, Len(req.context))),
          allocs |-> 0]
    ELSE EvaluateStatsLoop(policy.rules, req, 1, None, EvaluationStats_new, 0)

Policy_evaluate_with_stats(policy, req) == EvaluationRun(policy, req).result

(***************************************************************************)
(* Bounds and input pools.                                                 *)
(***************************************************************************)
MaxRules == 3       \* rules appended to one builder
MaxCalls == 5       \* push / pop / len calls made on one FixedStack
MaxNodes == 6       \* nodes of a Condition tree evaluated under SpecCond

EffectSeq == <<Allow, Deny>>

\* A target using all three matcher kinds; it matches ("alice" | "bob", "read", "salaries.pdf").
NarrowTarget ==
    [principal |-> MOneOf(<<"bob", "alice">>), action |-> MExact("read"),
     resource |-> MExact("salaries.pdf")]

\* Target and condition of the rules: unconditional and conditional, over a
\* broad and a narrow target, with conditions of depth 2 and 3.
ShapeSeq ==
    << [target |-> Target_any, condition |-> None],
       [target |-> Target_any,
        condition |-> Some(Not(NotEquals("role", VString("admin"))))],
       [target |-> NarrowTarget, condition |-> None],
       [target |-> NarrowTarget,
        condition |-> Some(Not(Not(Equals("mfa", VBool(FALSE)))))] >>

\* Each shape as an Allow and as a Deny rule, each with its own reason code;
\* the unconditional Deny rule on the narrow target is given ReasonCode::new(0).
RulePool ==
    { Rule_new(EffectSeq[i], ShapeSeq[j].target, ShapeSeq[j].condition,
               IF i = 2 /\ j = 3 THEN 0 ELSE 100 * i + j) :
        i \in 1..2, j \in 1..4 }

TightConfig ==
    [max_rules |-> 2, max_condition_depth |-> 2, max_context_attrs |-> 1,
     max_matcher_options |-> 64, max_string_len |-> 256]

\* max_rules above ABSOLUTE_MAX_RULES, the other fields within their ceilings.
OverCeilingConfig ==
    [max_rules |-> ABSOLUTE_MAX_RULES + 1, max_condition_depth |-> 2, max_context_attrs |-> 32,
     max_matcher_options |-> 64, max_string_len |-> 256]

ConfigPool == {PolicyConfig_default, TightConfig, OverCeilingConfig}

RequestContexts ==
    { <<>>,
      << <<"role", VString("admin")>> >>,
      << <<"mfa", VBool(FALSE)>> >>,
      << <<"mfa", VBool(FALSE)>>, <<"role", VString("admin")>> >> }

RequestTriples ==
    { <<"alice", "read", "salaries.pdf">>, <<"alice", "read", "manual.pdf">>,
      <<"eve", "read", "salaries.pdf">>, <<"alice", "write", "salaries.pdf">> }

Requests ==
    { Request_with_context(t[1], t[2], t[3], c) : t \in RequestTriples, c \in RequestContexts }

ContextPool ==
    { <<>>,
      << <<"role", VString("admin")>> >>,
      << <<"role", VString("member")>> >>,
      << <<"role", VInt(1)>> >>,
      << <<"role", VBool(TRUE)>> >>,
      << <<"mfa", VBool(FALSE)>>, <<"role", VString("admin")>> >>,
      << <<"role", VString("member")>>, <<"role", VString("admin")>> >> }

LeafValues == {VBool(TRUE), VBool(FALSE), VInt(1), VString("admin")}
LeafAttrs == {"role", "mfa"}

LeafPool ==
    {CTrue, CFalse}
    \cup { Equals(a, v) : a \in LeafAttrs, v \in LeafValues }
    \cup { NotEquals(a, v) : a \in LeafAttrs, v \in LeafValues }

TreeLeaves == {CTrue, Equals("role", VString("admin"))}

\* Every tree with exactly n nodes over TreeLeaves.
RECURSIVE TreesOfSize(_)
TreesOfSize(n) ==
    IF n = 1 THEN TreeLeaves
    ELSE { Not(t) : t \in TreesOfSize(n - 1) }
         \cup UNION { { And(a, b) : a \in TreesOfSize(i), b \in TreesOfSize(n - 1 - i) }
                      \cup { Or(a, b) : a \in TreesOfSize(i), b \in TreesOfSize(n - 1 - i) } :
                      i \in 1..(n - 2) }

\* Trees of height n: left-leaning And, right-leaning Or, a Not chain, and the
\* full binary tree.
RECURSIVE LeftAnd(_)
LeftAnd(n) == IF n <= 1 THEN Equals("x", VBool(TRUE)) ELSE And(LeftAnd(n - 1), CTrue)
RECURSIVE RightOr(_)
RightOr(n) == IF n <= 1 THEN Equals("x", VBool(TRUE)) ELSE Or(CFalse, RightOr(n - 1))
RECURSIVE NotChain(_)
NotChain(n) == IF n <= 1 THEN Equals("x", VBool(TRUE)) ELSE Not(NotChain(n - 1))
RECURSIVE Balanced(_)
Balanced(n) ==
    IF n <= 1 THEN Equals("x", VBool(TRUE)) ELSE And(Balanced(n - 1), Or(CFalse, Balanced(n - 1)))

\* The capacities Condition::evaluate gives its two Vecs.
WORK_STACK_CAPACITY == 32
RESULTS_CAPACITY == 16

\* Chains whose height is the capacity of the results Vec, and one more.
DeepInputs ==
    { LeftAnd(n) : n \in {RESULTS_CAPACITY, RESULTS_CAPACITY + 1} }
        \cup { RightOr(n) : n \in {RESULTS_CAPACITY, RESULTS_CAPACITY + 1} }

CondInputs == LeafPool \cup UNION { TreesOfSize(n) : n \in 1..MaxNodes } \cup DeepInputs

(***************************************************************************)
(* Spec: the builder, build() and evaluate().                              *)
(***************************************************************************)
CondIdle ==
    /\ cond = CTrue /\ ctx = <<>> /\ stack = <<>> /\ results = <<>>
    /\ cpc = "idle" /\ cresult = None /\ pops = 0 /\ visited = <<>>

\* Policy::builder(): an empty builder with the default configuration.
PolicyIdle ==
    /\ phase = "building" /\ rules = <<>> /\ config = PolicyConfig_default
    /\ buildErr = None /\ request = None /\ outcome = None
    /\ called = "none" /\ stats = None /\ alloc_count = 0

CallIdle == call = [op |-> "none"] /\ ret = None

ConcIdle == ev = <<>> /\ scratch = <<>>

\* No call made yet on an EvaluationStats.
NoStatCalls == [calls |-> 0, inc_rules |-> 0, inc_condition_evals |-> 0, update_depth |-> {}]
StatsIdle == es = EvaluationStats_new /\ made = NoStatCalls

DropIdle == heap = <<>> /\ frames = <<>> /\ released = <<>> /\ tree = CTrue

StackIdle ==
    /\ fs = FixedStack_new(0) /\ cap = 0 /\ hist = <<>>
    /\ alive = FALSE /\ dropped = <<>> /\ ub = FALSE

Init ==
    /\ PolicyIdle
    /\ CondIdle /\ CallIdle /\ StackIdle /\ ConcIdle /\ StatsIdle /\ DropIdle

\* PolicyBuilder.rule(r): appends.
BuilderRule(r) ==
    /\ phase = "building"
    /\ Len(rules) < MaxRules
    /\ rules' = Append(rules, r)
    /\ UNCHANGED <<phase, config, buildErr, evalVars, offPolicy>>

\* PolicyBuilder.config(c): replaces.
BuilderConfig(c) ==
    /\ phase = "building"
    /\ config' = c
    /\ UNCHANGED <<phase, rules, buildErr, evalVars, offPolicy>>

\* PolicyBuilder.build(): the builder is moved into the Policy, or dropped with
\* an error (rules and config then record what the dropped builder held).
Build ==
    /\ phase = "building"
    /\ LET res == PolicyBuilder_build(rules, config)
       IN  IF res.ok
           THEN /\ phase' = "built"
                /\ rules' = res.val.rules
                /\ config' = res.val.config
                /\ buildErr' = None
           ELSE /\ phase' = "failed"
                /\ buildErr' = Some(res.err)
                /\ UNCHANGED <<rules, config>>
    /\ UNCHANGED <<evalVars, offPolicy>>

\* Policy.evaluate(&request) on the built policy; it may be called any number of
\* times, each call after the caller has dropped the previous by-value result.
Evaluate(req) ==
    /\ phase = "built" /\ called = "none"
    /\ request' = Some(req)
    /\ outcome' = Some(Policy_evaluate([rules |-> rules, config |-> config], req))
    /\ called' = "evaluate"
    /\ stats' = None
    /\ alloc_count' = alloc_count + EvaluationRun([rules |-> rules, config |-> config], req).allocs
    /\ UNCHANGED <<phase, rules, config, buildErr, offPolicy>>

\* Policy.evaluate_with_stats(&request): Ok((decision, stats)) or the error alone.
EvaluateWithStats(req) ==
    /\ phase = "built" /\ called = "none"
    /\ request' = Some(req)
    /\ LET res == Policy_evaluate_with_stats([rules |-> rules, config |-> config], req)
       IN  IF res.ok
           THEN outcome' = Some(Ok(res.val.decision)) /\ stats' = Some(res.val.stats)
           ELSE outcome' = Some(res) /\ stats' = None
    /\ called' = "evaluate_with_stats"
    /\ alloc_count' = alloc_count + EvaluationRun([rules |-> rules, config |-> config], req).allocs
    /\ UNCHANGED <<phase, rules, config, buildErr, offPolicy>>

\* The caller drops the Decision (and stats) of the last call; the Policy stays.
DropResult ==
    /\ phase = "built" /\ called # "none"
    /\ request' = None /\ outcome' = None /\ called' = "none" /\ stats' = None
    /\ UNCHANGED <<phase, rules, config, buildErr, alloc_count, offPolicy>>

Next ==
    \/ \E r \in RulePool : BuilderRule(r)
    \/ \E c \in ConfigPool : BuilderConfig(c)
    \/ Build
    \/ \E req \in Requests : Evaluate(req)
    \/ \E req \in Requests : EvaluateWithStats(req)
    \/ DropResult

Spec == Init /\ [][Next]_vars

(***************************************************************************)
(* SpecCond: one call of Condition::evaluate, one popped work item a step. *)
(***************************************************************************)
InitCond ==
    /\ PolicyIdle /\ CallIdle /\ StackIdle /\ ConcIdle /\ StatsIdle /\ DropIdle
    /\ cond \in CondInputs
    /\ ctx \in ContextPool
    /\ stack = EvalStart(cond).stack
    /\ results = EvalStart(cond).results
    /\ cpc = "run"
    /\ cresult = None
    /\ pops = 0
    /\ visited = <<>>

\* The loop body on the popped item; a failed `?` returns at once.
CondStep ==
    LET st == EvalStep([stack |-> stack, results |-> results, err |-> None], ctx)
    IN  /\ stack' = st.stack
        /\ results' = st.results
        /\ pops' = pops + 1
        /\ visited' = IF Top(stack).item = "Eval" THEN Append(visited, Top(stack).cond)
                      ELSE visited
        /\ IF st.err.some
           THEN cpc' = "done" /\ cresult' = Some(EvalReturn(st))
           ELSE UNCHANGED <<cpc, cresult>>
        /\ UNCHANGED <<cond, ctx, offCond>>

Running == cpc = "run" /\ Len(stack) > 0

CondEvalLeaf ==
    /\ Running /\ Top(stack).item = "Eval" /\ IsLeaf(Top(stack).cond)
    /\ CondStep

CondEvalNot ==
    /\ Running /\ Top(stack).item = "Eval" /\ Top(stack).cond.kind = "Not"
    /\ CondStep

CondEvalBinary ==
    /\ Running /\ Top(stack).item = "Eval" /\ Top(stack).cond.kind \in {"And", "Or"}
    /\ CondStep

CondApplyNot ==
    /\ Running /\ Top(stack).item = "ApplyNot"
    /\ CondStep

CondApplyBinary ==
    /\ Running /\ Top(stack).item \in {"ApplyAnd", "ApplyOr"}
    /\ CondStep

\* The work stack is empty: results.pop().ok_or(InternalError).
CondReturn ==
    /\ cpc = "run" /\ Len(stack) = 0
    /\ cresult' = Some(EvalReturn([stack |-> stack, results |-> results, err |-> None]))
    /\ cpc' = "done"
    /\ UNCHANGED <<cond, ctx, stack, results, pops, visited, offCond>>

NextCond ==
    \/ CondEvalLeaf
    \/ CondEvalNot
    \/ CondEvalBinary
    \/ CondApplyNot
    \/ CondApplyBinary
    \/ CondReturn

SpecCond == InitCond /\ [][NextCond]_vars

\* The call runs to its return: the loop is sequential code that nothing suspends.
SpecCondFair == SpecCond /\ WF_vars(NextCond)

(***************************************************************************)
(* SpecCalls: one call of a function of the library on arguments drawn     *)
(* from bounded pools: Condition::validate, Matcher::matches,              *)
(* Target::matches, and a build followed by one evaluate_with_stats on a   *)
(* policy of one rule whose condition is a tree of height up to            *)
(* ABSOLUTE_MAX_CONDITION_DEPTH + 1.                                       *)
(***************************************************************************)
\* Leaves with attribute names of 1 and 4 bytes and String literals of 1 and 5
\* bytes, next to Bool and Int literals.
ValidateLeaves ==
    { CTrue,
      Equals("r", VString("a")),
      Equals("role", VString("a")),
      NotEquals("r", VString("admin")),
      Equals("role", VBool(TRUE)),
      NotEquals("r", VInt(123456)) }

\* Trees of height 1 to 3 over those leaves.
ValidateTrees ==
    ValidateLeaves
        \cup { Not(l) : l \in ValidateLeaves }
        \cup { And(l1, l2) : l1, l2 \in ValidateLeaves }
        \cup { Or(l1, l2) : l1, l2 \in ValidateLeaves }
        \cup { Not(And(l1, l2)) : l1, l2 \in ValidateLeaves }
        \cup { Or(Not(l1), l2) : l1, l2 \in ValidateLeaves }

ValidateCalls ==
    { [op |-> "validate", cond |-> c, max_depth |-> d, max_string_len |-> l] :
        c \in ValidateTrees, d \in 1..3, l \in {0, 1, 4, 5} }

\* Values that differ in case, by a prefix, by a suffix, and the empty string.
MatchValues == {"", "alice", "Alice", "ali", "alicex", "bob"}

MatcherPool ==
    {MAny} \cup { MExact(x) : x \in {"", "alice", "Alice", "ali"} }
           \cup { MOneOf(l) : l \in { <<>>, <<"alice">>, <<"bob", "alice">>,
                                         <<"alice", "alice">>, <<"", "bob">> } }

MatcherCalls == { [op |-> "matches", matcher |-> m, value |-> v] : m \in MatcherPool, v \in MatchValues }

TargetFieldMatchers == {MAny, MExact("alice"), MOneOf(<<"bob", "alice">>)}

TargetCalls ==
    { [op |-> "target_matches",
       target |-> [principal |-> mp, action |-> ma, resource |-> mr],
       principal |-> p, action |-> a, resource |-> r] :
        mp \in TargetFieldMatchers, ma \in TargetFieldMatchers, mr \in TargetFieldMatchers,
        p \in {"alice", "eve"}, a \in {"alice", "eve"}, r \in {"alice", "eve"} }

MaxBalanced == 5    \* height of the tallest full binary tree

DeepTrees ==
    { LeftAnd(n) : n \in 1..(ABSOLUTE_MAX_CONDITION_DEPTH + 1) }
        \cup { RightOr(n) : n \in 1..(ABSOLUTE_MAX_CONDITION_DEPTH + 1) }
        \cup { NotChain(n) : n \in 1..(ABSOLUTE_MAX_CONDITION_DEPTH + 1) }
        \cup { Balanced(n) : n \in 1..MaxBalanced }

\* max_condition_depth at its ceiling, at the default, and one above the ceiling.
DepthConfigs ==
    { [PolicyConfig_default EXCEPT !.max_condition_depth = d] :
        d \in {PolicyConfig_default.max_condition_depth, ABSOLUTE_MAX_CONDITION_DEPTH,
               ABSOLUTE_MAX_CONDITION_DEPTH + 1} }

EvaluateCalls ==
    { [op |-> "build_evaluate",
       rules |-> <<Rule_new(Allow, Target_any, Some(c), 1)>>,
       config |-> cfg,
       request |-> Request_with_context("alice", "read", "doc", context)] :
        c \in DeepTrees, cfg \in DepthConfigs,
        context \in { <<>>, << <<"x", VBool(TRUE)>> >> } }

\* Scenario S1 (deny wins): an Allow rule on any request, then a Deny rule on
\* the resource "salaries.pdf".
ScenarioS1Rules ==
    << Rule_new(Allow, Target_any, None, 1),
       Rule_new(Deny, [principal |-> MAny, action |-> MAny, resource |-> MExact("salaries.pdf")],
                None, 99) >>
ScenarioS1Request ==
    Request_with_context("alice", "read", "salaries.pdf", << <<"team", VString("engineering")>> >>)

RECURSIVE RuleLists(_)
RuleLists(n) ==
    IF n = 0 THEN {<<>>}
    ELSE RuleLists(n - 1) \cup { Append(rs, r) : rs \in RuleLists(n - 1), r \in RulePool }

\* Requests the narrow target matches and does not match, under every context.
PairRequests ==
    { Request_with_context("alice", "read", res, c) :
        res \in {"salaries.pdf", "manual.pdf"}, c \in RequestContexts }

\* The two entry points called on one policy with one request.
PairCalls ==
    { [op |-> "evaluate_pair", rules |-> rs, config |-> cfg, request |-> req] :
        rs \in RuleLists(MaxRules), cfg \in {PolicyConfig_default, TightConfig},
        req \in PairRequests }
      \cup { [op |-> "evaluate_pair", rules |-> ScenarioS1Rules, config |-> PolicyConfig_default,
              request |-> ScenarioS1Request] }

\* NotEquals{attr, value} next to Not(Equals{attr, value}), against one context.
NegationCalls ==
    { [op |-> "evaluate_both", left |-> NotEquals(a, v), right |-> Not(Equals(a, v)),
       context |-> c] :
        a \in LeafAttrs, v \in LeafValues, c \in ContextPool }

InitCalls ==
    /\ PolicyIdle /\ CondIdle /\ StackIdle /\ ConcIdle /\ StatsIdle /\ DropIdle
    /\ call \in ValidateCalls \cup MatcherCalls \cup TargetCalls \cup EvaluateCalls
                \cup PairCalls \cup NegationCalls
    /\ ret = None

\* condition.validate(max_depth, max_string_len)
CallValidate ==
    /\ call.op = "validate" /\ ret = None
    /\ ret' = Some(Condition_validate(call.cond, call.max_depth, call.max_string_len))
    /\ UNCHANGED <<call, offCalls>>

\* matcher.matches(value)
CallMatcherMatches ==
    /\ call.op = "matches" /\ ret = None
    /\ ret' = Some(Matcher_matches(call.matcher, call.value))
    /\ UNCHANGED <<call, offCalls>>

\* target.matches(principal, action, resource)
CallTargetMatches ==
    /\ call.op = "target_matches" /\ ret = None
    /\ ret' = Some(Target_matches(call.target, call.principal, call.action, call.resource))
    /\ UNCHANGED <<call, offCalls>>

\* Policy::builder().config(config).rule(rule).build(), then, on Ok(policy),
\* policy.evaluate_with_stats(&request).
CallBuildEvaluate ==
    /\ call.op = "build_evaluate" /\ ret = None
    /\ LET built == PolicyBuilder_build(call.rules, call.config)
       IN  ret' = Some([built |-> built.ok,
                        result |-> IF built.ok
                                   THEN Policy_evaluate_with_stats(built.val, call.request)
                                   ELSE built])
    /\ UNCHANGED <<call, offCalls>>

\* Policy::builder().config(config).rule(..).build(), then, on Ok(policy),
\* policy.evaluate(&request) and policy.evaluate_with_stats(&request).
CallEvaluatePair ==
    /\ call.op = "evaluate_pair" /\ ret = None
    /\ LET built == PolicyBuilder_build(call.rules, call.config)
       IN  ret' = Some(IF built.ok
                       THEN [built |-> TRUE,
                             plain |-> Policy_evaluate(built.val, call.request),
                             with_stats |-> Policy_evaluate_with_stats(built.val, call.request)]
                       ELSE [built |-> FALSE, error |-> built])
    /\ UNCHANGED <<call, offCalls>>

\* left.evaluate(context) and right.evaluate(context)
CallEvaluateBoth ==
    /\ call.op = "evaluate_both" /\ ret = None
    /\ ret' = Some([left |-> Condition_evaluate(call.left, call.context),
                    right |-> Condition_evaluate(call.right, call.context)])
    /\ UNCHANGED <<call, offCalls>>

NextCalls ==
    \/ CallValidate
    \/ CallMatcherMatches
    \/ CallTargetMatches
    \/ CallBuildEvaluate
    \/ CallEvaluatePair
    \/ CallEvaluateBoth

SpecCalls == InitCalls /\ [][NextCalls]_vars

(***************************************************************************)
(* SpecStack: one FixedStack<T, N> from FixedStack::new() through any      *)
(* sequence of push, pop, len and is_empty calls to its destruction. The   *)
(* elements pushed are 1, 2, 3, ... (each a value of its own, as the       *)
(* DropCounter instances of test_drop_partial).                            *)
(***************************************************************************)
Capacities == {1, 2, 3}

InitStack ==
    /\ PolicyIdle /\ CondIdle /\ CallIdle /\ ConcIdle /\ StatsIdle /\ DropIdle
    /\ cap \in Capacities
    /\ fs = FixedStack_new(cap)
    /\ hist = <<>> /\ alive = TRUE /\ dropped = <<>> /\ ub = FALSE

\* The next element to push: one more than the pushes attempted so far.
NextElement == Cardinality({ k \in DOMAIN hist : hist[k].op = "push" }) + 1

\* stack.push(value)
StackPush ==
    /\ alive /\ Len(hist) < MaxCalls
    /\ LET r == FixedStack_push(fs, NextElement, cap)
       IN  /\ fs' = r.stack
           /\ hist' = Append(hist, [op |-> "push", value |-> NextElement, result |-> r.result])
    /\ UNCHANGED <<cap, alive, dropped, ub, offStack>>

\* stack.pop()
StackPop ==
    /\ alive /\ Len(hist) < MaxCalls
    /\ LET r == FixedStack_pop(fs)
       IN  /\ fs' = r.stack
           /\ hist' = Append(hist, [op |-> "pop", result |-> r.result])
           /\ ub' = (ub \/ r.ub)
    /\ UNCHANGED <<cap, alive, dropped, offStack>>

\* stack.len() and stack.is_empty()
StackLen ==
    /\ alive /\ Len(hist) < MaxCalls
    /\ hist' = Append(hist, [op |-> "len", result |-> FixedStack_len(fs),
                             empty |-> FixedStack_is_empty(fs)])
    /\ UNCHANGED <<fs, cap, alive, dropped, ub, offStack>>

\* The stack goes out of scope: Drop for FixedStack.
StackDrop ==
    /\ alive
    /\ LET r == FixedStack_drop(fs)
       IN  /\ dropped' = r.dropped
           /\ ub' = (ub \/ r.ub)
    /\ alive' = FALSE
    /\ UNCHANGED <<fs, cap, hist, offStack>>

NextStack ==
    \/ StackPush
    \/ StackPop
    \/ StackLen
    \/ StackDrop

SpecStack == InitStack /\ [][NextStack]_vars

(***************************************************************************)
(* SpecConc: one built Policy shared by NumEvaluators threads, each        *)
(* calling policy.evaluate(&request) any number of times. A call advances  *)
(* one step at a time (request check, one rule, one iteration of the       *)
(* condition loop) and the steps of the threads interleave freely. What a  *)
(* call keeps between its steps lives in its own stack frame (section 5,   *)
(* "Thread safety"): first_allow and the two FixedStacks.                  *)
(***************************************************************************)
NumEvaluators == 2

Evaluators == 1..NumEvaluators

\* Variant: the calls keep first_allow and the stacks in one static buffer.
Scratch_Static(t) == 1

\* The frame that holds the locals of evaluator t's call: its own.
Scratch(t) == t

\* Scenario S4 and its rules in the other order, under a configuration that admits
\* one context attribute.
MfaDeny == Rule_new(Deny, Target_any, Some(Equals("mfa", VBool(FALSE))), 401)
SshAllow ==
    Rule_new(Allow, [principal |-> MAny, action |-> MExact("ssh"), resource |-> MExact("dev-server")],
             None, 200)
SharedPolicies ==
    { PolicyBuilder_build(rs, TightConfig).val : rs \in { <<MfaDeny, SshAllow>>, <<SshAllow, MfaDeny>> } }

ConcRequests ==
    { Request_with_context("bob", "ssh", "dev-server", << <<"mfa", VBool(FALSE)>> >>),
      Request_with_context("alice", "ssh", "dev-server", << <<"mfa", VBool(TRUE)>> >>),
      Request_with_context("eve", "read", "doc", << <<"mfa", VBool(TRUE)>> >>),
      Request_with_context("alice", "ssh", "dev-server",
                           << <<"mfa", VBool(TRUE)>>, <<"role", VString("admin")>> >>) }

IdleEvaluator == [pc |-> "idle", req |-> None, i |-> 0, result |-> None]
FreshFrame == [first_allow |-> None, st |-> EvalStacks_new(EvaluationStats_new)]

InitConc ==
    /\ CondIdle /\ CallIdle /\ StackIdle /\ StatsIdle /\ DropIdle
    /\ \E policy \in SharedPolicies :
          /\ phase = "built" /\ rules = policy.rules /\ config = policy.config
    /\ buildErr = None /\ request = None /\ outcome = None
    /\ called = "none" /\ stats = None /\ alloc_count = 0
    /\ ev = [t \in Evaluators |-> IdleEvaluator]
    /\ scratch = [f \in Evaluators |-> FreshFrame]

\* Evaluator t's call and its frame after a step.
ConcWrite(t, call_, frame) ==
    /\ ev' = [ev EXCEPT ![t] = call_]
    /\ scratch' = [scratch EXCEPT ![Scratch(t)] = frame]
    /\ UNCHANGED offConc

\* Section 4.5 steps 3b to 3d, once the condition of rule i is known.
ConcSettle(L, S, held) ==
    LET rule == rules[L.i]
    IN  IF ~held.ok THEN [ev |-> [L EXCEPT !.pc = "done", !.result = Some(held)], frame |-> S]
        ELSE IF ~held.val THEN [ev |-> [L EXCEPT !.pc = "rules", !.i = L.i + 1], frame |-> S]
        ELSE IF rule.effect = Deny
        THEN [ev |-> [L EXCEPT !.pc = "done", !.result = Some(Ok(Decision_deny(rule.reason)))],
              frame |-> S]
        ELSE [ev |-> [L EXCEPT !.pc = "rules", !.i = L.i + 1],
              frame |-> [S EXCEPT !.first_allow =
                                      IF S.first_allow.some THEN S.first_allow
                                      ELSE Some(rule.reason)]]

\* Evaluator t calls policy.evaluate(&req): step 1 validates the request, step 2
\* sets first_allow to None.
ConcBegin(t, req) ==
    /\ ev[t].pc = "idle"
    /\ IF Len(req.context) > config.max_context_attrs
       THEN ConcWrite(t, [pc |-> "done", req |-> Some(req), i |-> 0,
                          result |-> Some(Err(TooManyContextAttrs(config.max_context_attrs,
                                                                  Len(req.context))))],
                      scratch[Scratch(t)])
       ELSE ConcWrite(t, [pc |-> "rules", req |-> Some(req), i |-> 1, result |-> None],
                      [scratch[Scratch(t)] EXCEPT !.first_allow = None])

\* Step 3 for rule i, or step 4 after the last rule.
ConcRule(t) ==
    /\ ev[t].pc = "rules"
    /\ LET L == ev[t]
           S == scratch[Scratch(t)]
           req == L.req.val
       IN  IF L.i > Len(rules) THEN
               ConcWrite(t, [L EXCEPT !.pc = "done",
                                      !.result = Some(IF S.first_allow.some
                                                      THEN Ok(Decision_allow(S.first_allow.val))
                                                      ELSE Ok(Decision_deny(NO_MATCHING_RULE)))],
                         S)
           ELSE IF ~Target_matches(rules[L.i].target, req.principal, req.action, req.resource)
           THEN ConcWrite(t, [L EXCEPT !.i = L.i + 1], S)
           ELSE IF rules[L.i].condition.some
           THEN ConcWrite(t, [L EXCEPT !.pc = "cond"],
                          [S EXCEPT !.st = EvalFixedStart(rules[L.i].condition.val,
                                                          EvaluationStats_new)])
           ELSE LET r == ConcSettle(L, S, Ok(TRUE)) IN ConcWrite(t, r.ev, r.frame)

\* One iteration of the condition loop, or its return.
ConcCond(t) ==
    /\ ev[t].pc = "cond"
    /\ LET L == ev[t]
           S == scratch[Scratch(t)]
       IN  IF S.st.err.some \/ FixedStack_is_empty(S.st.work)
           THEN LET r == ConcSettle(L, S, EvalFixedReturn(S.st)) IN ConcWrite(t, r.ev, r.frame)
           ELSE ConcWrite(t, L, [S EXCEPT !.st = EvalFixedIteration(S.st, L.req.val.context)])

\* The caller drops the result; the evaluator may call again.
ConcFinish(t) ==
    /\ ev[t].pc = "done"
    /\ ConcWrite(t, IdleEvaluator, scratch[Scratch(t)])

NextConc ==
    \/ \E t \in Evaluators, req \in ConcRequests : ConcBegin(t, req)
    \/ \E t \in Evaluators : ConcRule(t)
    \/ \E t \in Evaluators : ConcCond(t)
    \/ \E t \in Evaluators : ConcFinish(t)

SpecConc == InitConc /\ [][NextConc]_vars

(***************************************************************************)
(* SpecStats: an EvaluationStats value and the calls made on it.  made     *)
(* counts the calls of each kind and collects the depths passed to         *)
(* update_depth.  The counters are u16, so a run may start from the value  *)
(* a long run of inc_rules / inc_condition_evals calls has produced.       *)
(***************************************************************************)
MaxStatCalls == 4   \* calls made on one EvaluationStats after its starting run

U8_MAX == 255
Depths == {0, 3, 5, 7, U8_MAX}          \* u8 arguments of update_depth
LongRuns == {0, U16_MAX}                \* lengths of the starting run of either counter

\* n calls of inc_rules / inc_condition_evals in a row, computed by halving;
\* the test on the counter makes TLC evaluate s before it descends.
RECURSIVE IncRulesTimes(_, _)
IncRulesTimes(s, n) ==
    IF n = 0 \/ s.rules_checked < 0 THEN s
    ELSE IF n = 1 THEN inc_rules(s)
    ELSE IncRulesTimes(IncRulesTimes(s, n \div 2), n - (n \div 2))

RECURSIVE IncConditionEvalsTimes(_, _)
IncConditionEvalsTimes(s, n) ==
    IF n = 0 \/ s.condition_evals < 0 THEN s
    ELSE IF n = 1 THEN inc_condition_evals(s)
    ELSE IncConditionEvalsTimes(IncConditionEvalsTimes(s, n \div 2), n - (n \div 2))

InitStats ==
    /\ \E base \in {EvaluationStats_new, EvaluationStats_default}, n \in LongRuns, m \in LongRuns :
          /\ es = IncConditionEvalsTimes(IncRulesTimes(base, n), m)
          /\ made = [NoStatCalls EXCEPT !.inc_rules = n, !.inc_condition_evals = m]
    /\ PolicyIdle /\ CondIdle /\ CallIdle /\ StackIdle /\ ConcIdle /\ DropIdle

StatIncRules ==
    /\ made.calls < MaxStatCalls
    /\ es' = inc_rules(es)
    /\ made' = [made EXCEPT !.calls = @ + 1, !.inc_rules = @ + 1]
    /\ UNCHANGED offStats

StatIncConditionEvals ==
    /\ made.calls < MaxStatCalls
    /\ es' = inc_condition_evals(es)
    /\ made' = [made EXCEPT !.calls = @ + 1, !.inc_condition_evals = @ + 1]
    /\ UNCHANGED offStats

StatUpdateDepth(depth) ==
    /\ made.calls < MaxStatCalls
    /\ es' = update_depth(es, depth)
    /\ made' = [made EXCEPT !.calls = @ + 1, !.update_depth = @ \cup {depth}]
    /\ UNCHANGED offStats

NextStats ==
    \/ StatIncRules
    \/ StatIncConditionEvals
    \/ \E depth \in Depths : StatUpdateDepth(depth)

SpecStats == InitStats /\ [][NextStats]_vars

(***************************************************************************)
(* SpecDrop: the destruction of a Condition (impl Drop for Condition).     *)
(* heap holds the nodes by address, each with its kind and the addresses   *)
(* of the boxes it owns.  Dropping a node runs Condition::drop on it, then *)
(* drops the boxes it still owns (the drop glue), then releases it.  Each  *)
(* frame is the drop of one node: its position, the local `stack` of       *)
(* Condition::drop, and the next field the glue will drop.                 *)
(***************************************************************************)
MaxDropNodes == 4   \* nodes of the small Condition trees dropped under SpecDrop
MaxDropDepth == 24  \* height of the chains dropped under SpecDrop

DropLeaves == {CTrue, CFalse, Equals("role", VString("admin")), NotEquals("mfa", VBool(TRUE))}

\* Small trees of every shape, tall chains and a full tree.
DropInputs ==
    DropLeaves \cup UNION { TreesOfSize(n) : n \in 1..MaxDropNodes }
        \cup { LeftAnd(MaxDropDepth), RightOr(MaxDropDepth), NotChain(MaxDropDepth),
               Balanced(MaxBalanced) }

\* The boxes a node owns: And / Or own two, Not owns one, the leaves none.
Node(kind, kids) == [kind |-> kind, kids |-> kids]

\* Box::new on the operands, then on the node: the tree laid out in heap h,
\* each node at the address after those of its operands.  (Len(a) is taken
\* first, so that TLC lays out the left operand before it descends into the
\* right one.)
RECURSIVE Alloc(_, _)
Alloc(c, h) ==
    IF IsLeaf(c) THEN Append(h, Node(c.kind, <<>>))
    ELSE IF c.kind = "Not" THEN
        LET i == Alloc(c.inner, h)
        IN  Append(i, Node("Not", <<Len(i)>>))
    ELSE
        LET a == Alloc(c.a, h)
            b == Alloc(c.b, a)
        IN  IF Len(a) > 0 THEN Append(b, Node(c.kind, <<Len(a), Len(b)>>)) ELSE h

\* Variant: the match arms move nothing, as with the derived recursive drop.
Detach_Nothing(h, n) == [heap |-> h, moved |-> <<>>]

\* The match arms of Condition::drop on node n: every owned box is replaced by
\* Box::new(Condition::True) with std::mem::replace and handed out, a first.
Detach(h, n) ==
    LET kids == h[n].kids
        fresh == [k \in 1..Len(kids) |-> Len(h) + k]
    IN  [heap |-> [h EXCEPT ![n].kids = fresh] \o [k \in 1..Len(kids) |-> Node("True", <<>>)],
         moved |-> kids]

Frame(n) == [node |-> n, pc |-> "drop", stack |-> <<>>, fld |-> 1]

InitDrop ==
    /\ tree \in DropInputs
    /\ heap = Alloc(tree, <<>>)
    /\ frames = <<Frame(Len(heap))>>
    /\ released = <<>>
    /\ PolicyIdle /\ CondIdle /\ CallIdle /\ StackIdle /\ ConcIdle /\ StatsIdle

Dropping(pc) == frames # <<>> /\ Top(frames).pc = pc
SetTop(f) == [frames EXCEPT ![Len(frames)] = f]

\* Condition::drop is entered: `match self`; a leaf returns at once.
DropEnter ==
    /\ Dropping("drop")
    /\ LET f == Top(frames)
           d == Detach(heap, f.node)
       IN  IF heap[f.node].kids = <<>>
           THEN /\ frames' = SetTop([f EXCEPT !.pc = "fields"])
                /\ UNCHANGED heap
           ELSE /\ heap' = d.heap
                /\ frames' = SetTop([f EXCEPT !.pc = "loop", !.stack = d.moved])
    /\ UNCHANGED <<released, tree, offDrop>>

\* One iteration of `while let Some(mut boxed_cond) = stack.pop()`: the boxes
\* of the popped node are moved to the stack, then boxed_cond goes out of
\* scope and is dropped.
DropLoopPop ==
    /\ Dropping("loop") /\ Top(frames).stack # <<>>
    /\ LET f == Top(frames)
           boxed_cond == Top(f.stack)
           d == Detach(heap, boxed_cond)
       IN  /\ heap' = d.heap
           /\ frames' = Append(SetTop([f EXCEPT !.stack = Pop(f.stack) \o d.moved]),
                               Frame(boxed_cond))
    /\ UNCHANGED <<released, tree, offDrop>>

\* stack.pop() returns None: Condition::drop returns.
DropLoopExit ==
    /\ Dropping("loop") /\ Top(frames).stack = <<>>
    /\ frames' = SetTop([Top(frames) EXCEPT !.pc = "fields"])
    /\ UNCHANGED <<heap, released, tree, offDrop>>

\* The drop glue drops the next box the node owns.
DropField ==
    /\ Dropping("fields") /\ Top(frames).fld <= Len(heap[Top(frames).node].kids)
    /\ LET f == Top(frames)
       IN  frames' = Append(SetTop([f EXCEPT !.fld = @ + 1]), Frame(heap[f.node].kids[f.fld]))
    /\ UNCHANGED <<heap, released, tree, offDrop>>

\* No box is left: the node is released and its drop returns.
DropRelease ==
    /\ Dropping("fields") /\ Top(frames).fld > Len(heap[Top(frames).node].kids)
    /\ released' = Append(released, Top(frames).node)
    /\ frames' = Pop(frames)
    /\ UNCHANGED <<heap, tree, offDrop>>

NextDrop ==
    \/ DropEnter
    \/ DropLoopPop
    \/ DropLoopExit
    \/ DropField
    \/ DropRelease

SpecDrop == InitDrop /\ [][NextDrop]_vars

\* A drop runs to its end: it is sequential code that nothing suspends.
SpecDropFair == SpecDrop /\ WF_vars(NextDrop)

(***************************************************************************)
(* Reference semantics the claims are stated against: what a matcher, a    *)
(* condition and a tree height mean, written without work stacks.          *)
(***************************************************************************)
RefMatcher(m, v) ==
    \/ m.m = "Any"
    \/ m.m = "Exact" /\ v = m.expected
    \/ m.m = "OneOf" /\ \E k \in DOMAIN m.options : m.options[k] = v

RefTargetMatches(t, req) ==
    /\ RefMatcher(t.principal, req.principal)
    /\ RefMatcher(t.action, req.action)
    /\ RefMatcher(t.resource, req.resource)

AttrIndexes(context, attr) == { k \in DOMAIN context : context[k][1] = attr }
AttrPresent(context, attr) == AttrIndexes(context, attr) # {}
\* The value a context gives an attribute: that of its first entry with the name.
AttrValue(context, attr) ==
    context[CHOOSE k \in AttrIndexes(context, attr) :
                \A j \in AttrIndexes(context, attr) : k <= j][2]

RECURSIVE Sem(_, _)
Sem(c, context) ==
    CASE c.kind = "True" -> TRUE
      [] c.kind = "False" -> FALSE
      [] c.kind = "Equals" ->
            AttrPresent(context, c.attr) /\ AttrValue(context, c.attr) = c.value
      [] c.kind = "NotEquals" ->
            ~AttrPresent(context, c.attr) \/ AttrValue(context, c.attr) # c.value
      [] c.kind = "Not" -> ~Sem(c.inner, context)
      [] c.kind = "And" -> Sem(c.a, context) /\ Sem(c.b, context)
      [] c.kind = "Or" -> Sem(c.a, context) \/ Sem(c.b, context)

RECURSIVE Height(_)
Height(c) ==
    CASE IsLeaf(c) -> 1
      [] c.kind = "Not" -> 1 + Height(c.inner)
      [] OTHER -> 1 + Max(Height(c.a), Height(c.b))

\* The rule's target matches the request and its condition is absent or true.
MatchesAndHolds(rule, req) ==
    /\ RefTargetMatches(rule.target, req)
    /\ (rule.condition.some => Sem(rule.condition.val, req.context))

DenyHolds(rs, req) == { k \in DOMAIN rs : rs[k].effect = Deny /\ MatchesAndHolds(rs[k], req) }
AllowHolds(rs, req) == { k \in DOMAIN rs : rs[k].effect = Allow /\ MatchesAndHolds(rs[k], req) }
First(S) == CHOOSE k \in S : \A j \in S : k <= j

\* evaluate has returned for a request whose context is within max_context_attrs.
Evaluated == phase = "built" /\ outcome.some
Admissible == Len(request.val.context) <= config.max_context_attrs
Decided == Evaluated /\ Admissible

\* The list with its i-th element moved to position j.
MoveTo(s, i, j) ==
    LET without == SubSeq(s, 1, i - 1) \o SubSeq(s, i + 1, Len(s))
    IN  SubSeq(without, 1, j - 1) \o <<s[i]>> \o SubSeq(without, j, Len(without))

IsComparison(c) == c.kind \in {"Equals", "NotEquals"}

\* The values the contexts of ContextPool hold.
ContextValues == UNION { { c[k][2] : k \in DOMAIN c } : c \in ContextPool }

\* The operands an Apply item takes from the results stack.
OperandsNeeded(item) ==
    IF item.item = "ApplyNot" THEN 1
    ELSE IF item.item \in {"ApplyAnd", "ApplyOr"} THEN 2
    ELSE 0

\* Build has returned, with a Policy or with an error.
BuildReturned == phase \in {"built", "failed"}

\* The rule-count limit of the builder's configuration.
RuleLimit == Min(config.max_rules, ABSOLUTE_MAX_RULES)

\* The rules of the builder whose condition is higher than max_condition_depth.
TooDeep ==
    { k \in DOMAIN rules :
        rules[k].condition.some /\ Height(rules[k].condition.val) > config.max_condition_depth }

\* The strings a matcher and a condition embed.
RefMatcherStrings(m) ==
    CASE m.m = "Exact" -> {m.expected}
      [] m.m = "OneOf" -> { m.options[k] : k \in DOMAIN m.options }
      [] OTHER -> {}

RECURSIVE RefConditionStrings(_)
RefConditionStrings(c) ==
    CASE c.kind \in {"True", "False"} -> {}
      [] IsComparison(c) -> {c.attr} \cup (IF c.value.tag = "String" THEN {c.value.s} ELSE {})
      [] c.kind = "Not" -> RefConditionStrings(c.inner)
      [] OTHER -> RefConditionStrings(c.a) \cup RefConditionStrings(c.b)

\* No build-time check that precedes the depth check of the first too-deep
\* condition fails: the rule count, the matcher lists, the matcher strings and
\* the strings of the conditions of the rules before it.
ChecksBeforeDepthPass ==
    /\ Len(rules) <= RuleLimit
    /\ \A k \in DOMAIN rules : \A f \in {"principal", "action", "resource"} :
          LET m == rules[k].target[f]
          IN  /\ m.m = "OneOf" =>
                    Len(m.options) <= Min(config.max_matcher_options, ABSOLUTE_MAX_MATCHER_OPTIONS)
              /\ \A str \in RefMatcherStrings(m) : Len(str) <= config.max_string_len
    /\ \A k \in 1..(First(TooDeep) - 1) :
          rules[k].condition.some =>
              \A str \in RefConditionStrings(rules[k].condition.val) :
                  Len(str) <= config.max_string_len

\* A call of `op` has returned.
Returned(op) == call.op = op /\ ret.some

\* The strings of the validated condition longer than max_string_len.
OverLong == { str \in RefConditionStrings(call.cond) : Len(str) > call.max_string_len }

\* The bounded LIFO sequence a history of calls leaves behind, and what its
\* last call must have returned.
RECURSIVE RefAfter(_, _)
RefAfter(h, N) ==
    IF h = <<>> THEN <<>>
    ELSE LET before == RefAfter(Pop(h), N)
             c == Top(h)
         IN  CASE c.op = "push" -> IF Len(before) < N THEN Append(before, c.value) ELSE before
               [] c.op = "pop" -> IF before = <<>> THEN <<>> ELSE Pop(before)
               [] OTHER -> before

RefReturns(before, c, N) ==
    CASE c.op = "push" ->
            c.result = (IF Len(before) < N THEN Ok(TRUE) ELSE Err(EvalStackOverflow(N)))
      [] c.op = "pop" ->
            c.result = (IF before = <<>> THEN None ELSE Some(Top(before)))
      [] OTHER -> c.result = Len(before) /\ c.empty = (before = <<>>)

\* The elements in the slots below len, bottom first.
LiveElements == [i \in 1..fs.len |-> fs.buf[i].val]

\* The elements push accepted, and how often each was handed out by a pop,
\* dropped by the destructor, or is held by a slot.
Pushed == { hist[k].value : k \in { j \in DOMAIN hist : hist[j].op = "push" /\ hist[j].result.ok } }
Refused == { hist[k].value : k \in { j \in DOMAIN hist : hist[j].op = "push" /\ ~hist[j].result.ok } }
HandedOut(e) == Cardinality({ k \in DOMAIN hist : hist[k].op = "pop" /\ hist[k].result = Some(e) })
DroppedTimes(e) == Cardinality({ k \in DOMAIN dropped : dropped[k] = e })
HeldTimes(e) == Cardinality({ i \in DOMAIN fs.buf : fs.buf[i].init /\ fs.buf[i].val = e })

\* The nodes of a tree, and those of them that are Not / And / Or.
RECURSIVE Size(_)
Size(c) ==
    CASE IsLeaf(c) -> 1
      [] c.kind = "Not" -> 1 + Size(c.inner)
      [] OTHER -> 1 + Size(c.a) + Size(c.b)

RECURSIVE InnerNodes(_)
InnerNodes(c) ==
    CASE IsLeaf(c) -> 0
      [] c.kind = "Not" -> 1 + InnerNodes(c.inner)
      [] OTHER -> 1 + InnerNodes(c.a) + InnerNodes(c.b)

\* The absolute ceiling of each PolicyConfig field (section 6), in field order.
ConfigFields ==
    <<"max_rules", "max_condition_depth", "max_context_attrs", "max_matcher_options",
      "max_string_len">>

Ceiling(field) ==
    CASE field = "max_rules" -> 4096
      [] field = "max_condition_depth" -> 32
      [] field = "max_context_attrs" -> 256
      [] field = "max_matcher_options" -> 256
      [] field = "max_string_len" -> 4096

\* The fields of cfg above their ceiling.
Exceeding(cfg) == { k \in DOMAIN ConfigFields : cfg[ConfigFields[k]] > Ceiling(ConfigFields[k]) }

\* Every other build-time check passes on the builder's rules: rule count,
\* matcher lists, string lengths and condition depths.
RulesPassChecks ==
    /\ Len(rules) <= RuleLimit
    /\ TooDeep = {}
    /\ \A k \in DOMAIN rules :
          /\ \A f \in {"principal", "action", "resource"} :
                LET m == rules[k].target[f]
                IN  /\ m.m = "OneOf" =>
                          Len(m.options)
                              <= Min(config.max_matcher_options, ABSOLUTE_MAX_MATCHER_OPTIONS)
                    /\ \A str \in RefMatcherStrings(m) : Len(str) <= config.max_string_len
          /\ rules[k].condition.some =>
                \A str \in RefConditionStrings(rules[k].condition.val) :
                    Len(str) <= config.max_string_len

\* One unconditional rule built under cfg.
BuildOneRule(cfg) == PolicyBuilder_build(<<Rule_new(Allow, Target_any, None, 1)>>, cfg)

\* The configuration of examples/simple.rs: every field at or below its ceiling.
SimpleExampleConfig ==
    [max_rules |-> 1000, max_condition_depth |-> 10, max_context_attrs |-> 64,
     max_matcher_options |-> 64, max_string_len |-> 256]

\* A chain of n - 1 Not over one comparison: a condition of height n.
RECURSIVE Nested(_)
Nested(n) == IF n <= 1 THEN Equals("role", VString("admin")) ELSE Not(Nested(n - 1))

\* Scenario S6: one rule with a condition of height n, built under the default configuration.
BuildNested(n) ==
    PolicyBuilder_build(<<Rule_new(Allow, Target_any, Some(Nested(n)), 1)>>, PolicyConfig_default)

(***************************************************************************)
(* C1  Deny-overrides: whenever evaluate has returned for an admissible    *)
(* request and some Deny rule of the policy matches the request with an    *)
(* absent or true condition, the result is a decision with effect Deny,    *)
(* however many Allow rules match and wherever they stand.                 *)
(***************************************************************************)
C1_DenyOverrides ==
    (Decided /\ DenyHolds(rules, request.val) # {})
        => (outcome.val.ok /\ outcome.val.val.effect = Deny)

\* A Deny rule holds after an Allow rule that holds too.
C1_Witness ==
    /\ Decided
    /\ \E a \in AllowHolds(rules, request.val), d \in DenyHolds(rules, request.val) : a < d
    /\ outcome.val = Ok(Decision_deny(rules[First(DenyHolds(rules, request.val))].reason))

(***************************************************************************)
(* C2  Default deny: whenever evaluate has returned for an admissible      *)
(* request and no rule (possibly there is none) both matches the target    *)
(* and has an absent or true condition, the result is Deny with reason 0.  *)
(***************************************************************************)
C2_DefaultDeny ==
    (Decided /\ DenyHolds(rules, request.val) = {} /\ AllowHolds(rules, request.val) = {})
        => outcome.val = Ok([effect |-> Deny, reason |-> 0])

\* Default deny with a rule whose target matches but whose condition is false,
\* and another whose target does not match.
C2_Witness ==
    /\ Decided
    /\ DenyHolds(rules, request.val) = {} /\ AllowHolds(rules, request.val) = {}
    /\ \E k \in DOMAIN rules : RefTargetMatches(rules[k].target, request.val)
    /\ \E k \in DOMAIN rules : ~RefTargetMatches(rules[k].target, request.val)
    /\ outcome.val = Ok([effect |-> Deny, reason |-> 0])

(***************************************************************************)
(* C3  Stable Allow reason: when no Deny rule matches-and-holds and some   *)
(* Allow rule does, the result is Allow with the reason of the first such  *)
(* Allow rule in declaration order.                                        *)
(***************************************************************************)
C3_StableAllowReason ==
    (Decided /\ DenyHolds(rules, request.val) = {} /\ AllowHolds(rules, request.val) # {})
        => outcome.val =
             Ok([effect |-> Allow, reason |-> rules[First(AllowHolds(rules, request.val))].reason])

\* Two Allow rules with different reasons hold, the first of them not in first place.
C3_Witness ==
    /\ Decided
    /\ DenyHolds(rules, request.val) = {}
    /\ \E a, b \in AllowHolds(rules, request.val) :
          a < b /\ a > 1 /\ rules[a].reason # rules[b].reason
    /\ outcome.val.ok /\ outcome.val.val.effect = Allow

(***************************************************************************)
(* C4  Order-independence of Deny: if a Deny rule of the evaluated policy  *)
(* matches-and-holds for the request, then the policy obtained by moving   *)
(* that rule to any position of the list also decides Deny for it.         *)
(***************************************************************************)
C4_DenyOrderIndependent ==
    Decided =>
        \A i \in DenyHolds(rules, request.val) : \A j \in DOMAIN rules :
            LET moved == Policy_evaluate([rules |-> MoveTo(rules, i, j), config |-> config],
                                         request.val)
            IN  moved.ok /\ moved.val.effect = Deny

\* A holding Deny rule in last place behind a holding Allow rule: moving it to the
\* front changes the reason code and keeps the effect.
C4_Witness ==
    /\ Decided
    /\ Len(rules) >= 3
    /\ Len(rules) \in DenyHolds(rules, request.val)
    /\ AllowHolds(rules, request.val) # {}
    /\ \E d \in DenyHolds(rules, request.val) :
          /\ d < Len(rules)
          /\ rules[d].reason # rules[Len(rules)].reason
          /\ Policy_evaluate([rules |-> MoveTo(rules, Len(rules), 1), config |-> config],
                             request.val) # outcome.val

(***************************************************************************)
(* C5  Context-size check: whenever evaluate or evaluate_with_stats has    *)
(* returned for a request whose context has more than max_context_attrs    *)
(* entries, the result is the error TooManyContextAttrs{max, actual} with  *)
(* max the bound and actual the context's length, whatever the rules are,  *)
(* and neither a Decision nor stats are returned; a context of exactly     *)
(* max_context_attrs entries (or fewer) is not rejected for its size.      *)
(***************************************************************************)
C5_ContextSizeCheck ==
    Evaluated =>
        LET actual == Len(request.val.context)
            max == config.max_context_attrs
        IN  /\ called \in {"evaluate", "evaluate_with_stats"}
            /\ actual > max =>
                  /\ outcome.val = Err(TooManyContextAttrs(max, actual))
                  /\ stats = None
            /\ actual <= max =>
                  (outcome.val.ok \/ outcome.val.err.kind # "TooManyContextAttrs")

\* evaluate_with_stats has rejected a two-entry context under max_context_attrs = 1
\* although the first rule is an unconditional Allow on the Any target.
C5_Witness ==
    /\ Evaluated /\ called = "evaluate_with_stats"
    /\ config.max_context_attrs = 1 /\ Len(request.val.context) = 2
    /\ Len(rules) > 0 /\ rules[1].effect = Allow
    /\ rules[1].target = Target_any /\ ~rules[1].condition.some
    /\ outcome.val = Err(TooManyContextAttrs(1, 2))

(***************************************************************************)
(* C6  Fail-closed lookup: a returned evaluation of Equals{attr, value}    *)
(* against a context with no entry named attr is Ok(false), and that of    *)
(* NotEquals{attr, value} is Ok(true), for every value; never an error.    *)
(***************************************************************************)
C6_FailClosedLookup ==
    (cpc = "done" /\ IsComparison(cond) /\ ~AttrPresent(ctx, cond.attr))
        => cresult = Some(Ok(cond.kind = "NotEquals"))

\* NotEquals on an attribute the non-empty context does not name has returned Ok(true).
C6_Witness ==
    /\ cpc = "done" /\ cond.kind = "NotEquals"
    /\ Len(ctx) > 0 /\ ~AttrPresent(ctx, cond.attr)
    /\ cresult = Some(Ok(TRUE))

C8_EvaluateAgreesWithSemantics ==
    /\ cpc = "done" => cresult = Some(Ok(Sem(cond, ctx)))
    /\ (cpc = "run" /\ Len(stack) > 0) => Len(results) >= OperandsNeeded(Top(stack))
    /\ (cpc = "run" /\ Len(stack) = 0) => Len(results) = 1
    /\ Condition_evaluate(cond, ctx) = Ok(Sem(cond, ctx))

\* A tree holding And, Or and Not has been evaluated to true against a context
\* in which its comparison is false.
C8_Witness ==
    /\ cpc = "done"
    /\ cond.kind = "Not" /\ cond.inner.kind = "And" /\ cond.inner.b.kind = "Or"
    /\ cond.inner.a.kind = "Equals"
    /\ ~Sem(cond.inner.a, ctx)
    /\ cresult = Some(Ok(TRUE))

ScenarioS6 ==
    /\ BuildNested(9) = Err(ConditionTooDeep(8, 9))
    /\ BuildNested(8).ok

CeilingCases ==
    /\ \A k \in DOMAIN ConfigFields :
          LET f == ConfigFields[k]
              over == [PolicyConfig_default EXCEPT ![f] = Ceiling(f) + 1]
              at == [PolicyConfig_default EXCEPT ![f] = Ceiling(f)]
          IN  /\ BuildOneRule(over) = Err(ConfigExceedsCeiling(f, Ceiling(f), Ceiling(f) + 1))
              /\ BuildOneRule(at).ok
    /\ BuildOneRule(SimpleExampleConfig).ok

C12_ValidateDepthThenStrings ==
    Returned("validate") =>
        LET height == Height(call.cond)
        IN  /\ ret.val.ok <=> (height <= call.max_depth /\ OverLong = {})
            /\ height > call.max_depth =>
                  ret.val = Err(ConditionTooDeep(call.max_depth, height))
            /\ (height <= call.max_depth /\ OverLong # {}) =>
                  \E str \in OverLong :
                      ret.val = Err(StringTooLong(call.max_string_len, Len(str)))

\* A tree of height 3 with a 5-byte literal, validated with max_depth = 2 and
\* max_string_len = 1, has failed with ConditionTooDeep{2, 3}.
C12_Witness ==
    /\ Returned("validate")
    /\ call.max_depth = 2 /\ call.max_string_len = 1
    /\ Height(call.cond) = 3 /\ "admin" \in OverLong
    /\ ret.val = Err(ConditionTooDeep(2, 3))

(***************************************************************************)
(* C13  Matcher round-trip: Exact(x) matches v iff v = x (case-sensitive,  *)
(* no prefix match); OneOf(L) matches v iff v is an element of L, so OneOf *)
(* of the empty list matches nothing; Any matches every value, the empty   *)
(* string included; Target.matches(p, a, r) is the conjunction of the      *)
(* three field matches.                                                    *)
(***************************************************************************)
C13_MatcherRoundTrip ==
    /\ Returned("matches") =>
          LET m == call.matcher
          IN  /\ m.m = "Any" => ret.val = TRUE
              /\ m.m = "Exact" => ret.val = (call.value = m.expected)
              /\ m.m = "OneOf" =>
                    ret.val = (call.value \in { m.options[k] : k \in DOMAIN m.options })
    /\ Returned("target_matches") =>
          ret.val = (/\ RefMatcher(call.target.principal, call.principal)
                     /\ RefMatcher(call.target.action, call.action)
                     /\ RefMatcher(call.target.resource, call.resource))

\* OneOf of the empty list has not matched the empty string.
C13_Witness ==
    /\ Returned("matches")
    /\ call.matcher = MOneOf(<<>>) /\ call.value = ""
    /\ ret.val = FALSE

(***************************************************************************)
(* C19  FixedStack<T, N> is a LIFO sequence bounded by N: after any        *)
(* sequence of calls 0 <= len <= N; push returns Ok iff len < N and        *)
(* otherwise Err(EvalStackOverflow{max: N}) leaving len and contents       *)
(* unchanged; pop returns the most recently pushed element not yet popped  *)
(* and decrements len, or None leaving the stack unchanged when empty;     *)
(* len() and is_empty() report the number of live elements.                *)
(***************************************************************************)
C19_FixedStackIsBoundedLifo ==
    /\ 0 <= fs.len /\ fs.len <= cap
    /\ \A k \in DOMAIN hist : RefReturns(RefAfter(SubSeq(hist, 1, k - 1), cap), hist[k], cap)
    /\ LiveElements = RefAfter(hist, cap)
    /\ FixedStack_len(fs) = Len(RefAfter(hist, cap))
    /\ FixedStack_is_empty(fs) = (RefAfter(hist, cap) = <<>>)

\* A push on a full stack was refused, and the pop after it returned the element
\* pushed before the refused one.
C19_Witness ==
    \E k \in DOMAIN hist :
        /\ k + 1 \in DOMAIN hist /\ k > 1
        /\ hist[k].op = "push" /\ hist[k].result = Err(EvalStackOverflow(cap))
        /\ hist[k + 1].op = "pop" /\ hist[k + 1].result = Some(hist[k - 1].value)
        /\ hist[k - 1].op = "push"

(***************************************************************************)
(* C20  FixedStack releases each element exactly once: every element push  *)
(* accepted is, while the stack lives, either handed out by one pop or     *)
(* held by one slot below len, and after destruction either handed out by  *)
(* one pop or dropped once by the destructor; the destructor drops exactly *)
(* the slots 0..len; no slot at index >= len holds an element, and no slot *)
(* that holds no element is read or dropped.                               *)
(***************************************************************************)
C20_ReleasedExactlyOnce ==
    /\ ~ub
    /\ \A e \in Pushed :
          /\ alive => HandedOut(e) + HeldTimes(e) = 1
          /\ ~alive => HandedOut(e) + DroppedTimes(e) = 1
    /\ \A e \in Refused : HandedOut(e) = 0 /\ HeldTimes(e) = 0 /\ DroppedTimes(e) = 0
    /\ \A i \in DOMAIN fs.buf : fs.buf[i].init <=> i <= fs.len
    /\ ~alive => dropped = LiveElements
    /\ alive => dropped = <<>>

\* A stack of capacity 3 was destroyed holding one element after another had
\* been popped: the destructor dropped that one element only.
C20_Witness ==
    /\ ~alive /\ cap = 3
    /\ fs.len = 1 /\ Len(dropped) = 1
    /\ \E e \in Pushed : HandedOut(e) = 1
    /\ \E e \in Pushed : DroppedTimes(e) = 1

(***************************************************************************)
(* C15  Termination by construction: every Condition::evaluate call on a   *)
(* tree that passes validate returns: it reaches the empty work stack and  *)
(* an Ok result after popping one Eval item per node and one Apply item    *)
(* per Not / And / Or node, which is at most 2 * size(tree) work items.    *)
(***************************************************************************)
C15_EvaluateTerminates ==
    (cpc = "run" /\ Condition_validate(cond, Height(cond), 256).ok)
        ~> (/\ cpc = "done" /\ stack = <<>>
            /\ cresult.some /\ cresult.val.ok
            /\ pops = Size(cond) + InnerNodes(cond)
            /\ pops <= 2 * Size(cond))

\* A call on a tree of six nodes, three of them Not / And / Or, has returned
\* after nine pops.
C15_Witness ==
    /\ cpc = "done" /\ cresult.some
    /\ Size(cond) = 6 /\ InnerNodes(cond) = 3
    /\ pops = 9

(***************************************************************************)
(* C14  Zero allocation: on a built Policy the allocator call count stays  *)
(* 0 over any number of evaluate calls, whether the call ends on an allow, *)
(* on a deny, on no match or on a size error, with or without conditions   *)
(* on the rules; so it does for the rule of tests/allocations.rs whose     *)
(* condition is a left-leaning And chain of depth 10.                      *)
(***************************************************************************)
\* make_deep_and(depth) of tests/allocations.rs.
RECURSIVE make_deep_and(_)
make_deep_and(depth) ==
    IF depth <= 1 THEN Equals("x", VBool(TRUE)) ELSE And(make_deep_and(depth - 1), CTrue)

\* The policy and the request of test_zero_allocations_max_depth_condition, built
\* under a configuration that admits depth 10.
DeepPolicy ==
    PolicyBuilder_build(<<Rule_new(Allow, Target_any, Some(make_deep_and(10)), 1)>>,
                        SimpleExampleConfig)
DeepRequest == Request_with_context("alice", "read", "doc", << <<"x", VBool(TRUE)>> >>)
DeepRun == EvaluationRun(DeepPolicy.val, DeepRequest)

C16_NoEvalStackOverflow ==
    (Returned("build_evaluate") /\ ret.val.built) =>
        LET c == call.rules[1].condition.val
            D == call.config.max_condition_depth
            res == ret.val.result
        IN  /\ Height(c) <= D /\ D <= ABSOLUTE_MAX_CONDITION_DEPTH
            /\ res.ok
            /\ res.val.decision =
                    IF Sem(c, call.request.context)
                    THEN Decision_allow(1) ELSE Decision_deny(NO_MATCHING_RULE)
            /\ res.val.stats.max_depth_reached <= 2 * Height(c) - 1
            /\ 2 * Height(c) - 1 < 2 * D
            /\ 2 * D <= EVAL_STACK_CAPACITY
            /\ Condition_evaluate(c, call.request.context) = Ok(Sem(c, call.request.context))

\* The left-leaning And chain of height 32 was built and evaluated, its work
\* stack having held 63 items.
C16_Witness ==
    /\ Returned("build_evaluate") /\ ret.val.built
    /\ call.rules[1].condition.val = LeftAnd(ABSOLUTE_MAX_CONDITION_DEPTH)
    /\ ret.val.result.ok
    /\ ret.val.result.val.stats.max_depth_reached = 2 * ABSOLUTE_MAX_CONDITION_DEPTH - 1

(***************************************************************************)
(* C18  Reason code 0. As claimed: a returned Decision carries reason 0    *)
(* only when no rule matched-and-held.                                     *)
(***************************************************************************)
C18_ReasonZeroOnlyWithoutMatch ==
    (Decided /\ outcome.val.ok /\ outcome.val.val.reason = NO_MATCHING_RULE)
        => (DenyHolds(rules, request.val) = {} /\ AllowHolds(rules, request.val) = {})

\* The rule that produces the decision: the first holding Deny rule, else the
\* first holding Allow rule.
DecidingRule ==
    IF DenyHolds(rules, request.val) # {} THEN rules[First(DenyHolds(rules, request.val))]
    ELSE rules[First(AllowHolds(rules, request.val))]

(***************************************************************************)
(* C18 as amended: when no rule matched-and-held the Decision is Deny with *)
(* reason 0; a Decision produced by a matching rule carries that rule's    *)
(* reason code, which is 0 only if the rule was given reason code 0; so    *)
(* on a policy none of whose rules has reason code 0, reason 0 is returned *)
(* exactly when no rule matched-and-held.                                  *)
(***************************************************************************)
C18_ReasonZero ==
    (Decided /\ outcome.val.ok) =>
        LET held == DenyHolds(rules, request.val) \cup AllowHolds(rules, request.val)
            decision == outcome.val.val
        IN  /\ held = {} => decision = [effect |-> Deny, reason |-> NO_MATCHING_RULE]
            /\ held # {} => /\ decision.reason = DecidingRule.reason
                            /\ decision.effect = DecidingRule.effect
            /\ (\A k \in DOMAIN rules : rules[k].reason # NO_MATCHING_RULE)
                  => (decision.reason = NO_MATCHING_RULE <=> held = {})

\* Build accepted a Deny rule with reason code 0, and it decided the request
\* ahead of a holding Allow rule.
C18_Witness ==
    /\ Decided /\ outcome.val = Ok([effect |-> Deny, reason |-> 0])
    /\ DenyHolds(rules, request.val) # {}
    /\ AllowHolds(rules, request.val) # {}
    /\ DecidingRule.reason = 0

SetMax(S) == CHOOSE x \in S : \A y \in S : y <= x

ZeroStats ==
    /\ EvaluationStats_new = [rules_checked |-> 0, max_depth_reached |-> 0, condition_evals |-> 0]
    /\ EvaluationStats_default = EvaluationStats_new

C21_CountersSaturate ==
    /\ ZeroStats
    /\ es.rules_checked = Min(made.inc_rules, 65535)
    /\ es.condition_evals = Min(made.inc_condition_evals, 65535)
    /\ es.max_depth_reached = SetMax(made.update_depth \cup {0})

\* Both counters were incremented past 65535 and a depth below the maximum
\* was passed after it.
C21_Witness ==
    /\ made.inc_rules > 65535 /\ es.rules_checked = 65535
    /\ made.inc_condition_evals > 65535 /\ es.condition_evals = 65535
    /\ made.update_depth = {3, 7} /\ es.max_depth_reached = 7

(***************************************************************************)
(* C22: rules_checked counts target matches.  After evaluate_with_stats    *)
(* returns a decision, rules_checked is the number of rules whose target   *)
(* matches the request among the rules up to and including the one that    *)
(* returned Deny, or among all rules if no Deny rule fired: rules whose    *)
(* target does not match and rules after the deciding Deny are not         *)
(* counted, a rule whose target matches and whose condition is false is.   *)
(***************************************************************************)
PairDecided == Returned("evaluate_pair") /\ ret.val.built /\ ret.val.with_stats.ok

\* The rules the loop reaches: all of them, or those up to the deciding Deny.
Reached(rs, req) ==
    IF DenyHolds(rs, req) = {} THEN DOMAIN rs ELSE 1..First(DenyHolds(rs, req))

TargetMatched(rs, req) == { k \in Reached(rs, req) : RefTargetMatches(rs[k].target, req) }

C22_RulesCheckedCountsTargetMatches ==
    PairDecided =>
        ret.val.with_stats.val.stats.rules_checked
            = Cardinality(TargetMatched(call.rules, call.request))

\* The third rule, a Deny, decided after a rule whose target did not match
\* and a rule whose target matched and whose condition was false: 2 counted.
C22_Witness ==
    /\ PairDecided
    /\ Len(call.rules) = 3
    /\ ~RefTargetMatches(call.rules[1].target, call.request)
    /\ RefTargetMatches(call.rules[2].target, call.request)
    /\ ~MatchesAndHolds(call.rules[2], call.request)
    /\ First(DenyHolds(call.rules, call.request) \cup {9}) = 3
    /\ ret.val.with_stats.val.stats.rules_checked = 2

\* A Deny rule decided with a matching rule behind it, which is not counted.
C22_WitnessAfterDeny ==
    /\ PairDecided
    /\ Len(call.rules) = 3
    /\ First(DenyHolds(call.rules, call.request) \cup {9}) = 1
    /\ RefTargetMatches(call.rules[2].target, call.request)
    /\ ret.val.with_stats.val.stats.rules_checked = 1

(***************************************************************************)
(* C24: single pass equals two passes.  For every rule list and request    *)
(* the loop of evaluate returns the Decision of the two-pass reference:    *)
(* the first Deny rule in declaration order that matches and holds, else   *)
(* the first Allow rule that matches and holds, else Deny with reason 0.   *)
(* A Deny decision carries the reason of the first matching Deny even when *)
(* an Allow rule matched earlier (scenario S1: Deny with reason 99).       *)
(***************************************************************************)
TwoPass(rs, req) ==
    IF DenyHolds(rs, req) # {}
    THEN [effect |-> Deny, reason |-> rs[First(DenyHolds(rs, req))].reason]
    ELSE IF AllowHolds(rs, req) # {}
    THEN [effect |-> Allow, reason |-> rs[First(AllowHolds(rs, req))].reason]
    ELSE [effect |-> Deny, reason |-> 0]

PairEvaluated ==
    /\ Returned("evaluate_pair") /\ ret.val.built
    /\ Len(call.request.context) <= call.config.max_context_attrs

C24_SinglePassEqualsTwoPass ==
    /\ PairEvaluated => ret.val.plain = Ok(TwoPass(call.rules, call.request))
    /\ (PairEvaluated /\ call.rules = ScenarioS1Rules /\ call.request = ScenarioS1Request)
           => ret.val.plain = Ok([effect |-> Deny, reason |-> 99])

\* An Allow rule matched before the deciding Deny rule, and a second Deny
\* rule that matches and holds follows it.
C24_Witness ==
    /\ PairEvaluated
    /\ Len(call.rules) = 3
    /\ 1 \in AllowHolds(call.rules, call.request)
    /\ DenyHolds(call.rules, call.request) = {2, 3}
    /\ call.rules[2].reason # call.rules[3].reason
    /\ ret.val.plain = Ok([effect |-> Deny, reason |-> call.rules[2].reason])

\* Scenario S1 was evaluated.
C24_WitnessS1 ==
    /\ PairEvaluated
    /\ call.rules = ScenarioS1Rules /\ call.request = ScenarioS1Request
    /\ ret.val.plain = Ok([effect |-> Deny, reason |-> 99])

\* No Deny rule fired and two Allow rules match and hold: the first decides.
C24_WitnessAllow ==
    /\ PairEvaluated
    /\ DenyHolds(call.rules, call.request) = {}
    /\ AllowHolds(call.rules, call.request) = {2, 3}
    /\ call.rules[2].reason # call.rules[3].reason
    /\ ret.val.plain = Ok([effect |-> Allow, reason |-> call.rules[2].reason])

(***************************************************************************)
(* C28: evaluate_with_stats refines evaluate.  For every built policy and  *)
(* request, evaluate_with_stats returns Ok((d, stats)) exactly when        *)
(* evaluate returns Ok(d), with the same Decision d, and returns the same  *)
(* error when evaluate returns an error.                                   *)
(***************************************************************************)
PairReturned == Returned("evaluate_pair") /\ ret.val.built

C28_WitnessError ==
    /\ PairReturned
    /\ ~ret.val.plain.ok /\ ~ret.val.with_stats.ok
    /\ Len(call.request.context) > call.config.max_context_attrs

(***************************************************************************)
(* C30: the depth statistic stays within the configured limit.  For every  *)
(* policy accepted by build() and every request, the max_depth_reached     *)
(* that evaluate_with_stats reports is at most the max_condition_depth of  *)
(* the policy, hence at most ABSOLUTE_MAX_CONDITION_DEPTH = 32, and it is  *)
(* 0 when no condition was evaluated.                                      *)
(***************************************************************************)
\* The rules with a condition that the loop evaluates for the request.
ConditionsEvaluated(rs, req) == { k \in TargetMatched(rs, req) : rs[k].condition.some }

DepthStat == ret.val.result.val.stats.max_depth_reached
PairDepthStat == ret.val.with_stats.val.stats.max_depth_reached

C30_DepthStatWithinLimit ==
    /\ (Returned("build_evaluate") /\ ret.val.built /\ ret.val.result.ok) =>
          /\ DepthStat <= call.config.max_condition_depth
          /\ DepthStat <= 32
    /\ PairDecided =>
          /\ PairDepthStat <= call.config.max_condition_depth
          /\ PairDepthStat <= 32
          /\ ConditionsEvaluated(call.rules, call.request) = {} => PairDepthStat = 0

(***************************************************************************)
(* C23: under the default configuration (Policy::builder() with no config  *)
(* call) build() accepts a rule whose condition is the left-leaning And    *)
(* chain of depth 10 of test_zero_allocations_max_depth_condition, and the *)
(* evaluation of that policy returns a decision, not an error.             *)
(***************************************************************************)
DefaultBuilderOnDepth10 ==
    /\ Returned("build_evaluate")
    /\ call.config = PolicyConfig_default
    /\ call.rules = <<Rule_new(Allow, Target_any, Some(make_deep_and(10)), 1)>>

C23_DefaultConfigAcceptsDepth10 ==
    DefaultBuilderOnDepth10 => ret.val.built /\ ret.val.result.ok

(***************************************************************************)
(* C27: the pre-allocated capacities of Condition::evaluate suffice.  For  *)
(* every condition of depth at most max_condition_depth <= 32 and every    *)
(* context, at every point of the evaluation the work stack holds at most  *)
(* its 32 pre-allocated items and the results stack at most its 16         *)
(* pre-allocated booleans, so neither Vec grows during the evaluation.     *)
(***************************************************************************)
WithinConstructionBound == Height(cond) <= 32

C27_CapacitiesSuffice ==
    WithinConstructionBound => Len(stack) <= 32 /\ Len(results) <= 16

\* What holds of the code: a tree of height h keeps the work stack within
\* 2h - 1 items and the results stack within h booleans.
C27_StacksWithinHeight ==
    /\ Len(stack) <= 2 * Height(cond) - 1
    /\ Len(results) <= Height(cond)

(***************************************************************************)
(* C25: no short-circuit.  For every condition tree and every context the  *)
(* evaluation visits every node of the tree exactly once, the left operand *)
(* of each And / Or before the right one, and the right one even when the  *)
(* left one already determines the result (And with a false left operand,  *)
(* Or with a true one); the number of nodes evaluated is the node count of *)
(* the condition, whatever the context.                                    *)
(***************************************************************************)
\* The nodes of a tree, each before its operands, the left operand's before
\* the right operand's.
RECURSIVE Preorder(_)
Preorder(c) ==
    CASE IsLeaf(c) -> <<c>>
      [] c.kind = "Not" -> <<c>> \o Preorder(c.inner)
      [] OTHER -> <<c>> \o Preorder(c.a) \o Preorder(c.b)

C25_NoShortCircuit ==
    /\ cpc = "run" =>
          /\ Len(visited) <= Size(cond)
          /\ visited = SubSeq(Preorder(cond), 1, Len(visited))
    /\ cpc = "done" =>
          /\ visited = Preorder(cond)
          /\ Len(visited) = Size(cond)

\* An Or whose left operand is true, itself the left operand of an And: the
\* right operands of both were evaluated, after the left ones.
C25_Witness ==
    /\ cpc = "done"
    /\ cond.kind = "And" /\ cond.a.kind = "Or"
    /\ ~Sem(cond.a.b, ctx) /\ Sem(cond.a.a, ctx)
    /\ visited = <<cond, cond.a, cond.a.a, cond.a.b, cond.b>>
    /\ cresult = Some(Ok(Sem(cond.b, ctx)))

\* An And with a false left operand: the right operand was still evaluated.
C25_WitnessAnd ==
    /\ cpc = "done"
    /\ cond.kind = "And" /\ ~Sem(cond.a, ctx) /\ IsLeaf(cond.a) /\ cond.b.kind = "Equals"
    /\ visited = <<cond, cond.a, cond.b>>

(***************************************************************************)
(* C29: NotEquals is the exact negation of Equals.  For every attribute    *)
(* name, literal value and context (the attribute present with an equal    *)
(* value, with a different value, with a value of another type, absent, or *)
(* listed more than once) NotEquals{attr, value} and                       *)
(* Not(Equals{attr, value}) evaluate to the same boolean.                  *)
(***************************************************************************)
NegationEvaluated ==
    /\ Returned("evaluate_both")
    /\ call.left.kind = "NotEquals"
    /\ call.right = Not(Equals(call.left.attr, call.left.value))

C29_NotEqualsNegatesEquals ==
    NegationEvaluated => ret.val.left.ok /\ ret.val.right.ok /\ ret.val.left.val = ret.val.right.val

\* The attribute is listed twice, first with another value and then with the
\* literal: both conditions are true.
C29_Witness ==
    /\ NegationEvaluated
    /\ Cardinality(AttrIndexes(call.context, call.left.attr)) = 2
    /\ call.context[2][2] = call.left.value
    /\ ret.val.left = Ok(TRUE) /\ ret.val.right = Ok(TRUE)

\* The attribute is absent: both conditions are true.
C29_WitnessAbsent ==
    /\ NegationEvaluated
    /\ call.context # <<>> /\ ~AttrPresent(call.context, call.left.attr)
    /\ ret.val.left = Ok(TRUE) /\ ret.val.right = Ok(TRUE)

\* The attribute is present with the literal: both conditions are false.
C29_WitnessEqual ==
    /\ NegationEvaluated
    /\ AttrPresent(call.context, call.left.attr)
    /\ AttrValue(call.context, call.left.attr) = call.left.value
    /\ ret.val.left = Ok(FALSE) /\ ret.val.right = Ok(FALSE)

(***************************************************************************)
(* C26: non-recursive destruction.  Dropping a Condition tree of any shape *)
(* and depth terminates and releases every node of the original tree       *)
(* exactly once (none leaked, none released twice); the nesting depth of   *)
(* the drop calls stays within a constant that does not depend on the      *)
(* depth of the tree, because each owned child is detached (replaced by a  *)
(* True leaf) and moved to a local work stack before its parent is         *)
(* released.                                                               *)
(***************************************************************************)
\* The nodes of the tree being dropped are the first Size(tree) of the heap;
\* the later ones are the True leaves that replaced detached children.
Original(n) == n <= Size(tree)

TimesReleased(n) == Cardinality({ k \in DOMAIN released : released[k] = n })

DropDone == frames = <<>>

\* At most three drops are nested: that of the tree, that of a node taken
\* from its work stack, and that of a True leaf left in that node.
DropSafe ==
    /\ Len(frames) <= 3
    /\ \A n \in DOMAIN heap : TimesReleased(n) <= 1
    /\ \A k \in DOMAIN released :
          \A j \in DOMAIN heap[released[k]].kids :
              LET kid == heap[released[k]].kids[j]
              IN  ~Original(kid) /\ heap[kid].kind = "True"
    /\ DropDone => \A n \in DOMAIN heap : TimesReleased(n) = 1

C26_NonRecursiveDrop == []DropSafe /\ <>DropDone

\* A left-leaning chain of height 20 or more has been dropped: each of its
\* nodes is released once, the root last.
C26_Witness ==
    /\ DropDone
    /\ tree.kind = "And" /\ Height(tree) >= 20 /\ Size(tree) = 2 * Height(tree) - 1
    /\ \A n \in 1..Size(tree) : TimesReleased(n) = 1
    /\ Top(released) = Size(tree)

====
